---- MODULE Spec2Model ----
(***************************************************************************)
(* A model of the smart-drive-organizer repository:                        *)
(*   - HashCache, the SQLite table file_hashes of                          *)
(*     smart_organizer_ultimate.py, and SmartOrganizer.calculate_hash;     *)
(*   - process_directory_smart, the two-phase duplicate detector of        *)
(*     smart_organizer.py, with its worker pools and the kill_now flag;    *)
(*   - analyze_folder_content, the folder classifier, of both files, and   *)
(*     the walk that samples a folder for it;                              *)
(*   - worker threads sharing the one connection of HashCache;             *)
(*   - main of smart_organizer.py, its loop over the selected directories, *)
(*     and the program run a second time on the same tree;                 *)
(*   - is_system_folder of both files and _analyze_one_directory;          *)
(*   - find_empty_folders and cleanup_empty_folders of SmartOrganizer.     *)
(***************************************************************************)
EXTENDS Integers, Sequences, FiniteSets, TLC

VARIABLES
    \* ---- HashCache (smart_organizer_ultimate.py) ----
    file_hashes,   \* the rows of table file_hashes
    clock,         \* CURRENT_TIMESTAMP / datetime('now'), in ticks
    op,            \* the HashCache call made last, with its return value
    lastStore,     \* history: path -> arguments of the latest store_hash, the
                   \* time of that store or of the latest hit since, and the
                   \* number of hits since
    evicted,       \* history: paths whose row cleanup_cache deleted since
    \* ---- SmartOrganizer.calculate_hash (smart_organizer_ultimate.py) ----
    fs,            \* path -> the file there: its content (chunks) and mtime
    kill_now,      \* killer.kill_now, the cancellation flag
    call,          \* the calculate_hash call: position, locals, return value
    stats,         \* self.stats: cache_hits, cache_misses
    prev,          \* history: path -> the hash returned for its current stat
    \* ---- analyze_folder_content (smart_organizer.py) ----
    files,         \* the sampled file names: suffix -> number of files
    verdict,       \* the dictionary analyze_folder_content returned
    uverdict,      \* the same of SmartOrganizer.analyze_folder_content
    impl,          \* the walk of which analyze_folder_content is running
    tree,          \* os.walk(folder_path): the directories it would yield
    wpos,          \* os.walk(folder_path): the directory yielded next
    \* ---- is_system_folder, _analyze_one_directory (smart_organizer.py) ----
    item,          \* the entry looked at: its name, whether it is a
                   \* directory, and what os.listdir gives for it
    one_result,    \* what _analyze_one_directory returned
    system,        \* what is_system_folder returned
    usystem,       \* the same of SmartOrganizer.is_system_folder
    \* ---- find_empty_folders, cleanup_empty_folders (ultimate) ----
    folders,       \* the directory tree, in the order of os.walk(topdown=False)
    dry_run,       \* self.dry_run
    epc,           \* where cleanup_empty_folders is
    epos,          \* the directory the loop under way looks at next
    empty_folders, \* the list find_empty_folders builds
    deleted,       \* history: the folders that were removed
    \* ---- process_directory_smart (smart_organizer.py) ----
    disk,          \* file -> its directory, its content, whether it is gone
    rich,          \* console and RICH_AVAILABLE: which hashing loop runs
    pc,            \* where the main thread is in process_directory_smart
    todo,          \* os.walk: the directories still to be yielded
    all_files,     \* all_files, in the order of discovery
    futures,       \* file -> state of its get_file_metadata future
    yielded,       \* the futures as_completed has handed to the main loop
    processed_files, \* processed_files, in the order of completion
    file_data,     \* file -> the dictionary get_file_metadata made for it
    groups,        \* potential_duplicates
    gtask,         \* group -> state of its _hash_files task, next member
    gi,            \* the simple loop's index into potential_duplicates
    consumed,      \* the group futures the Rich loop has handled
    duplicates,    \* duplicates: digest -> list of files
    report,        \* what generate_smart_report wrote, if it ran
    hashed,        \* history: the files handed to calculate_hash
    killedAt,      \* history: where the main thread was when kill_now rose
    \* ---- workers sharing one HashCache (smart_organizer_ultimate.py) ----
    workers,       \* worker -> its HashCache call and how far it has got
    settled,       \* history: path -> the store_hash that completed last
    stored,        \* history: the arguments of every store_hash so far
    \* ---- main (smart_organizer.py) ----
    directory_path, \* the argument of process_directory_smart
    selected_dirs, \* the directories the user selected
    di,            \* the index of the loop over selected_dirs
    mainpc,        \* where main is
    run,           \* the number of this run of the program
    called         \* history: the directories handed to process_directory_smart

cacheVars == <<file_hashes, clock, op, lastStore, evicted>>
calcRest == <<fs, call, stats, prev>>
calcVars == <<fs, kill_now, call, stats, prev>>
triageVars == <<item, one_result, system, usystem>>
emptyVars == <<folders, dry_run, epc, epos, empty_folders, deleted>>
classVars == <<files, verdict, uverdict, impl, tree, wpos, triageVars, emptyVars>>
scanRest == <<disk, rich, pc, todo, all_files, futures, yielded,
              processed_files, file_data, groups, gtask, gi, consumed,
              duplicates, report, hashed>>
scanVars == <<disk, rich, pc, todo, all_files, futures, yielded,
              processed_files, file_data, groups, gtask, gi, consumed,
              duplicates, report, hashed, killedAt>>
poolVars == <<workers, settled, stored>>
mainVars == <<directory_path, selected_dirs, di, mainpc, run, called>>
vars == <<file_hashes, clock, op, lastStore, evicted,
          fs, kill_now, call, stats, prev,
          files, verdict, uverdict, impl, tree, wpos,
          item, one_result, system, usystem,
          folders, dry_run, epc, epos, empty_folders, deleted,
          disk, rich, pc, todo, all_files, futures, yielded,
          processed_files, file_data, groups, gtask, gi, consumed,
          duplicates, report, hashed, killedAt,
          workers, settled, stored,
          directory_path, selected_dirs, di, mainpc, run, called>>

(***************************************************************************)
(* Bounds of the model.                                                    *)
(***************************************************************************)
MaxClock == 2      \* ticks of the clock that are explored
MaxAccess == 2     \* access_count values that are explored
TicksPerDay == 1   \* clock ticks in one day of cleanup_cache's retention
MaxCalls == 2      \* calculate_hash calls that reach the cache lookup

Paths == {"p1", "p2"}
Chunks == {"a", "b"}
None == <<"None">>

\* hashlib.sha256: the hasher absorbs chunks; the digest names exactly the
\* bytes absorbed (no collisions between different contents).
sha256_new == <<>>
sha256_update(hasher, chunk) == Append(hasher, chunk)
sha256_hexdigest(hasher) == <<"sha256">> \o hasher
SHA256(content) == sha256_hexdigest(content)

Sizes == {1, 2}
Mtimes == {1, 2}
Digests == {SHA256(<<"a">>), SHA256(<<"b">>)}

NoStore == [size |-> 0, mtime |-> 0, hash |-> None, n |-> 0,
            touched |-> 0, hits |-> 0]
NoPrev == [valid |-> FALSE, size |-> 0, mtime |-> 0, ret |-> None]
NoCall == [pc |-> "idle", path |-> "", size |-> 0, mtime |-> 0,
           hasher |-> sha256_new, pos |-> 0, ret |-> None, site |-> "none",
           wrote |-> FALSE, reads |-> 0, hits0 |-> 0, misses0 |-> 0,
           prev0 |-> NoPrev, raised |-> "none", truth |-> None]
NoVerdict == [needs_organization |-> FALSE, reason |-> "none", file_count |-> 0]
NoOp == [name |-> "none", path |-> "", size |-> 0, mtime |-> 0, hash |-> None,
         ret |-> None, days |-> 0, entries |-> 0, accesses |-> 0]

\* CREATE TABLE file_hashes: one row, with the two column defaults
\* last_updated = CURRENT_TIMESTAMP and access_count = 1.
NewRow(p, s, m, h) ==
    [file_path |-> p, file_size |-> s, modified_time |-> m, hash_sha256 |-> h,
     last_updated |-> clock, access_count |-> 1]

\* INSERT OR REPLACE on the PRIMARY KEY file_path: the conflicting row is
\* deleted, then the new row is inserted.
InsertPlain(rows, row) == rows \cup {row}
InsertOrReplace(rows, row) ==
    {r \in rows : r.file_path # row.file_path} \cup {row}

\* SELECT hash_sha256 ... WHERE file_path = ? AND file_size = ? AND modified_time = ?
SelectIgnoringMtime(rows, p, s, m) ==
    {r \in rows : r.file_path = p /\ r.file_size = s}
SelectByLastUpdated(rows, p, s, m) ==
    {r \in rows : r.file_path = p /\ r.file_size = s /\ r.last_updated = m}
SelectHash(rows, p, s, m) ==
    {r \in rows : r.file_path = p /\ r.file_size = s /\ r.modified_time = m}

\* UPDATE file_hashes SET access_count = access_count + 1,
\*        last_updated = CURRENT_TIMESTAMP WHERE file_path = ?
UpdateAccess(rows, p) ==
    {IF r.file_path = p
        THEN [r EXCEPT !.access_count = @ + 1, !.last_updated = clock]
        ELSE r : r \in rows}

\* HashCache.get_hash: the value returned
get_hash_result(rows, p, s, m) ==
    LET result == SelectHash(rows, p, s, m)
    IN  IF result # {} THEN (CHOOSE r \in result : TRUE).hash_sha256 ELSE None

\* HashCache.get_hash: the table afterwards
get_hash_rows(rows, p, s, m) ==
    IF SelectHash(rows, p, s, m) # {} THEN UpdateAccess(rows, p) ELSE rows

\* DELETE FROM file_hashes WHERE last_updated < datetime('now', '-d days')
DeleteOldAndNow(rows, d) ==
    {r \in rows : ~(r.last_updated <= clock - d * TicksPerDay)}
DeleteOld(rows, d) ==
    {r \in rows : ~(r.last_updated < clock - d * TicksPerDay)}

RECURSIVE SumAccess(_)
SumAccess(rows) ==
    IF rows = {} THEN 0
    ELSE LET r == CHOOSE x \in rows : TRUE
         IN  r.access_count + SumAccess(rows \ {r})

CalcIdle ==
    /\ fs = [p \in Paths |-> [content |-> <<>>, mtime |-> 1]]
    /\ kill_now = FALSE
    /\ call = NoCall
    /\ stats = [cache_hits |-> 0, cache_misses |-> 0]
    /\ prev = [p \in Paths |-> NoPrev]

WalkIdle ==
    /\ impl = "none"
    /\ tree = <<>>
    /\ wpos = 0

NoItem == [name |-> <<>>, isdir |-> FALSE, readable |-> FALSE, listing |-> <<>>]
NoResult == [returned |-> FALSE, none |-> FALSE, type |-> "", reason |-> "",
             analysis |-> NoVerdict]
NoAnswer == [called |-> FALSE, value |-> FALSE]

TriageIdle ==
    /\ item = NoItem
    /\ one_result = NoResult
    /\ system = NoAnswer
    /\ usystem = NoAnswer

EmptyIdle ==
    /\ folders = <<>>
    /\ dry_run = FALSE
    /\ epc = "idle"
    /\ epos = 0
    /\ empty_folders = <<>>
    /\ deleted = {}

ClassIdle ==
    /\ files = <<>>
    /\ verdict = NoVerdict
    /\ uverdict = NoVerdict
    /\ WalkIdle
    /\ TriageIdle
    /\ EmptyIdle

NoReport == [made |-> FALSE, interrupted |-> FALSE, files |-> <<>>,
             duplicates |-> <<>>]

ScanIdle ==
    /\ disk = <<>>
    /\ rich = FALSE
    /\ pc = "idle"
    /\ todo = <<>>
    /\ all_files = <<>>
    /\ futures = <<>>
    /\ yielded = {}
    /\ processed_files = <<>>
    /\ file_data = <<>>
    /\ groups = <<>>
    /\ gtask = <<>>
    /\ gi = 0
    /\ consumed = {}
    /\ duplicates = <<>>
    /\ report = NoReport
    /\ hashed = {}
    /\ killedAt = "never"

Workers == {"w1", "w2"}

NoWork == [pc |-> "idle", name |-> "none", path |-> "", size |-> 0, mtime |-> 0,
           hash |-> None, result |-> None, ret |-> None,
           known |-> FALSE, expect |-> None, overlap |-> FALSE]

Unsettled == [ok |-> FALSE, size |-> 0, mtime |-> 0, hash |-> None]

PoolIdle ==
    /\ workers = [w \in Workers |-> NoWork]
    /\ settled = [p \in Paths |-> [Unsettled EXCEPT !.ok = TRUE]]
    /\ stored = {}

Root == <<"photos">>

MainIdle ==
    /\ directory_path = Root
    /\ selected_dirs = <<>>
    /\ di = 0
    /\ mainpc = "idle"
    /\ run = 1
    /\ called = {}

\* HashCache.__init__ on a new database: _init_db creates an empty table
CacheIdle ==
    /\ file_hashes = {}
    /\ clock = 0
    /\ op = NoOp
    /\ lastStore = [p \in Paths |-> NoStore]
    /\ evicted = {}

CacheInit ==
    /\ CacheIdle
    /\ CalcIdle
    /\ ClassIdle
    /\ ScanIdle
    /\ PoolIdle
    /\ MainIdle

\* HashCache.store_hash(file_path, file_size, modified_time, hash_value)
store_hash(p, s, m, h) ==
    /\ file_hashes' = InsertOrReplace(file_hashes, NewRow(p, s, m, h))
    /\ op' = [NoOp EXCEPT !.name = "store_hash", !.path = p, !.size = s,
                          !.mtime = m, !.hash = h]
    /\ lastStore' = [lastStore EXCEPT ![p] =
          [size |-> s, mtime |-> m, hash |-> h, n |-> IF @.n = 0 THEN 1 ELSE 2,
           touched |-> clock, hits |-> 0]]
    /\ evicted' = evicted \ {p}
    /\ UNCHANGED <<clock, calcVars, classVars, scanVars, poolVars, mainVars>>

\* HashCache.get_hash(file_path, file_size, modified_time)
get_hash(p, s, m) ==
    /\ \A r \in file_hashes : r.file_path = p => r.access_count < MaxAccess
    /\ file_hashes' = get_hash_rows(file_hashes, p, s, m)
    /\ op' = [NoOp EXCEPT !.name = "get_hash", !.path = p, !.size = s,
                          !.mtime = m,
                          !.ret = get_hash_result(file_hashes, p, s, m)]
    /\ lastStore' = IF op'.ret # None
                    THEN [lastStore EXCEPT ![p].touched = clock, ![p].hits = @ + 1]
                    ELSE lastStore
    /\ UNCHANGED <<clock, evicted, calcVars, classVars, scanVars, poolVars, mainVars>>

\* HashCache.cleanup_cache(days_old)
cleanup_cache(d) ==
    /\ file_hashes' = DeleteOld(file_hashes, d)
    /\ op' = [NoOp EXCEPT !.name = "cleanup_cache", !.days = d]
    /\ evicted' = evicted \cup
          {r.file_path : r \in file_hashes \ DeleteOld(file_hashes, d)}
    /\ lastStore' = [p \in Paths |->
          IF p \in evicted' THEN [lastStore[p] EXCEPT !.touched = 0, !.hits = 0]
          ELSE lastStore[p]]
    /\ UNCHANGED <<clock, calcVars, classVars, scanVars, poolVars, mainVars>>

\* HashCache.get_stats()
get_stats ==
    /\ op' = [NoOp EXCEPT !.name = "get_stats",
                          !.entries = Cardinality(file_hashes),
                          !.accesses = SumAccess(file_hashes)]
    /\ UNCHANGED <<file_hashes, clock, lastStore, evicted, calcVars, classVars, scanVars, poolVars, mainVars>>

\* the wall clock advances
Tick ==
    /\ clock < MaxClock
    /\ clock' = clock + 1
    /\ UNCHANGED <<file_hashes, op, lastStore, evicted, calcVars, classVars, scanVars, poolVars, mainVars>>

\* the calls explored: every size, mtime and digest for p1; one stat and
\* one digest for p2
CacheNext ==
    \/ \E p \in Paths, s \in Sizes, m \in Mtimes, h \in Digests :
          /\ p = "p2" => (s = 1 /\ m = 1 /\ h = SHA256(<<"a">>))
          /\ store_hash(p, s, m, h)
    \/ \E p \in Paths, s \in Sizes, m \in Mtimes :
          /\ p = "p2" => (s = 1 /\ m = 1)
          /\ get_hash(p, s, m)
    \/ \E d \in {0, 1} : cleanup_cache(d)
    \/ get_stats
    \/ Tick

CacheSpec == CacheInit /\ [][CacheNext]_vars

(***************************************************************************)
(* Several worker threads call get_hash and store_hash on the one          *)
(* HashCache, whose connection is opened with check_same_thread=False and  *)
(* used without a lock.  A step is one SQL statement: SQLite runs the      *)
(* statements of one connection one at a time, and on one connection a     *)
(* statement sees what every earlier statement did, committed or not.      *)
(***************************************************************************)
\* the calls the workers make: path, size, mtime, and the hash stored
PoolFiles == {<<"p1", 1, 1>>, <<"p1", 2, 1>>, <<"p2", 1, 1>>}
PoolDigests(p) == IF p = "p1" THEN Digests ELSE {SHA256(<<"a">>)}

\* get_hash: the SELECT and fetchone(); without a row the call returns None
PoolSelect(w, p, s, m) ==
    /\ workers[w].pc = "idle"
    /\ \A r \in file_hashes : r.file_path = p => r.access_count < MaxAccess
    /\ LET result == get_hash_result(file_hashes, p, s, m)
           begun == [NoWork EXCEPT
                       !.name = "get_hash", !.path = p, !.size = s, !.mtime = m,
                       !.result = result,
                       !.known = settled[p].ok,
                       !.expect = IF settled[p].size = s /\ settled[p].mtime = m
                                  THEN settled[p].hash ELSE None]
       IN  workers' = [workers EXCEPT ![w] =
                         IF result # None
                         THEN [begun EXCEPT !.pc = "selected"]
                         ELSE [begun EXCEPT !.ret = None]]
    /\ UNCHANGED <<file_hashes, clock, op, lastStore, evicted, settled, stored,
                   calcVars, classVars, scanVars, mainVars>>

\* get_hash: the UPDATE of access_count and last_updated
PoolUpdate(w) ==
    /\ workers[w].pc = "selected"
    /\ file_hashes' = UpdateAccess(file_hashes, workers[w].path)
    /\ workers' = [workers EXCEPT ![w].pc = "updated"]
    /\ UNCHANGED <<clock, op, lastStore, evicted, settled, stored,
                   calcVars, classVars, scanVars, mainVars>>

\* store_hash: the INSERT OR REPLACE
PoolInsert(w, p, s, m, h) ==
    /\ workers[w].pc = "idle"
    /\ LET others_storing == {v \in Workers \ {w} :
                                workers[v].pc = "inserted" /\ workers[v].path = p}
       IN  workers' = [v \in Workers |->
                         IF v = w
                         THEN [NoWork EXCEPT
                                 !.pc = "inserted", !.name = "store_hash",
                                 !.path = p, !.size = s, !.mtime = m, !.hash = h,
                                 !.overlap = (others_storing # {})]
                         ELSE IF v \in others_storing
                         THEN [workers[v] EXCEPT !.overlap = TRUE]
                         ELSE workers[v]]
    /\ file_hashes' = InsertOrReplace(file_hashes, NewRow(p, s, m, h))
    /\ settled' = [settled EXCEPT ![p] = Unsettled]
    /\ stored' = stored \cup {<<p, s, m, h>>}
    /\ UNCHANGED <<clock, op, lastStore, evicted,
                   calcVars, classVars, scanVars, mainVars>>

\* self.conn.commit() and the return of get_hash or store_hash
PoolCommit(w) ==
    /\ workers[w].pc \in {"updated", "inserted"}
    /\ IF workers[w].pc = "updated"
       THEN /\ workers' = [workers EXCEPT ![w].pc = "idle",
                                          ![w].ret = workers[w].result]
            /\ UNCHANGED settled
       ELSE /\ workers' = [workers EXCEPT ![w] = [NoWork EXCEPT !.name = "store_hash"]]
            /\ settled' = [settled EXCEPT ![workers[w].path] =
                  IF workers[w].overlap
                  THEN Unsettled
                  ELSE [ok |-> TRUE, size |-> workers[w].size,
                        mtime |-> workers[w].mtime, hash |-> workers[w].hash]]
    /\ UNCHANGED <<file_hashes, clock, op, lastStore, evicted, stored,
                   calcVars, classVars, scanVars, mainVars>>

PoolInit ==
    /\ CacheIdle
    /\ CalcIdle
    /\ ClassIdle
    /\ ScanIdle
    /\ PoolIdle
    /\ MainIdle

PoolNext ==
    \/ \E w \in Workers, f \in PoolFiles : PoolSelect(w, f[1], f[2], f[3])
    \/ \E w \in Workers : PoolUpdate(w)
    \/ \E w \in Workers, f \in PoolFiles :
          \E h \in PoolDigests(f[1]) : PoolInsert(w, f[1], f[2], f[3], h)
    \/ \E w \in Workers : PoolCommit(w)

PoolSpec == PoolInit /\ [][PoolNext]_vars

\* C19: with two workers interleaving the statements of get_hash and
\* store_hash on the shared connection: the row of a path holds the
\* arguments of the store_hash that completed last, when no other store_hash
\* for the path overlapped it or began since; a hash returned by get_hash is
\* the hash of one store_hash made with the path, size and mtime asked for;
\* and a get_hash that began after that store_hash had completed returns
\* its hash when size and mtime match, and None when they do not.
C19_SharedConnection ==
    /\ \A p \in Paths :
          (settled[p].ok /\ settled[p].hash # None) =>
              \E r \in file_hashes :
                  /\ r.file_path = p
                  /\ r.file_size = settled[p].size
                  /\ r.modified_time = settled[p].mtime
                  /\ r.hash_sha256 = settled[p].hash
    /\ \A w \in Workers :
          (workers[w].name = "get_hash" /\ workers[w].pc = "idle") =>
              /\ workers[w].ret # None =>
                    <<workers[w].path, workers[w].size, workers[w].mtime,
                      workers[w].ret>> \in stored
              /\ workers[w].known => workers[w].ret = workers[w].expect

\* a get_hash returned the hash of the completed store_hash of its path
\* while the other worker was between the INSERT and the commit of a
\* store_hash, and a second store_hash had replaced an earlier row
C19_Witness ==
    \E w, v \in Workers :
        /\ workers[w].name = "get_hash"
        /\ workers[w].pc = "idle"
        /\ workers[w].known
        /\ workers[w].ret # None
        /\ workers[v].pc = "inserted"
        /\ Cardinality(stored) > Cardinality(file_hashes)

(***************************************************************************)
(* SmartOrganizer.calculate_hash over a file system whose files change     *)
(* between calls, and the signal handler that raises kill_now.             *)
(***************************************************************************)
\* the contents a file may hold, as sequences of chunks of chunk_size bytes
FileContents == {<<>>, <<"a">>, <<"a", "b">>}

\* os.stat(file_path).st_size, in chunks
st_size(p) == Len(fs[p].content)
st_mtime(p) == fs[p].mtime

\* `if cached_hash:` a digest is a non-empty string, None is falsy
Truthy(h) == h # None

\* `if killer.kill_now: return None` inside the read loop
CancelBreak == "break"
CancelStatement == "return None"

CalcInit ==
    /\ CacheIdle
    /\ ClassIdle
    /\ ScanIdle
    /\ PoolIdle
    /\ MainIdle
    /\ fs \in [Paths -> [content : FileContents, mtime : Mtimes]]
    /\ kill_now = FALSE
    /\ call = NoCall
    /\ stats = [cache_hits |-> 0, cache_misses |-> 0]
    /\ prev = [p \in Paths |-> NoPrev]

\* what a call that returns a hash leaves for the next call on the path
Returned(p, s, m, h) ==
    [prev EXCEPT ![p] = [valid |-> TRUE, size |-> s, mtime |-> m, ret |-> h]]

\* calculate_hash(file_path), from the call to the first read of the file:
\* os.stat, the cache lookup, the counters, open().  Each of os.stat,
\* hash_cache.get_hash (sqlite3.Error: database locked, unreadable or
\* corrupt) and open may raise; `except Exception` then returns None.
CalcBegin(p) ==
    /\ call.pc = "idle"
    /\ stats.cache_hits + stats.cache_misses < MaxCalls
    /\ \A r \in file_hashes : r.file_path = p => r.access_count < MaxAccess
    /\ \E statFails \in BOOLEAN, getFails \in BOOLEAN, openFails \in BOOLEAN :
        LET s == st_size(p)
            m == st_mtime(p)
            cached_hash == get_hash_result(file_hashes, p, s, m)
            rows1 == get_hash_rows(file_hashes, p, s, m)
            c0 == [NoCall EXCEPT !.path = p, !.hits0 = stats.cache_hits,
                                 !.misses0 = stats.cache_misses,
                                 !.prev0 = prev[p],
                                 !.truth = SHA256(fs[p].content)]
        IN  IF statFails
            THEN /\ call' = [c0 EXCEPT !.site = "error", !.raised = "os.stat"]
                 /\ UNCHANGED <<file_hashes, stats, prev>>
            ELSE IF getFails
            THEN /\ call' = [c0 EXCEPT !.size = s, !.mtime = m, !.site = "error",
                                       !.raised = "get_hash"]
                 /\ UNCHANGED <<file_hashes, stats, prev>>
            ELSE IF Truthy(cached_hash)
            THEN /\ file_hashes' = rows1
                 /\ stats' = [stats EXCEPT !.cache_hits = @ + 1]
                 /\ call' = [c0 EXCEPT !.size = s, !.mtime = m, !.site = "hit",
                                       !.ret = cached_hash,
                                       !.wrote = (rows1 # file_hashes)]
                 /\ prev' = Returned(p, s, m, cached_hash)
            ELSE /\ file_hashes' = rows1
                 /\ stats' = [stats EXCEPT !.cache_misses = @ + 1]
                 /\ call' = IF openFails
                            THEN [c0 EXCEPT !.size = s, !.mtime = m,
                                            !.site = "error", !.raised = "open"]
                            ELSE [c0 EXCEPT !.size = s, !.mtime = m,
                                            !.pc = "reading"]
                 /\ UNCHANGED prev
    /\ UNCHANGED <<clock, op, lastStore, evicted, fs, kill_now, classVars, scanVars, poolVars, mainVars>>

\* the end of the call: hexdigest, store_hash, return hash_value; when
\* hash_cache.store_hash raises, `except Exception` returns None
CalcFinish ==
    LET hash_value == sha256_hexdigest(call.hasher)
    IN  \E storeFails \in BOOLEAN :
          IF storeFails
          THEN /\ call' = [call EXCEPT !.pc = "idle", !.site = "error",
                                       !.raised = "store_hash"]
               /\ UNCHANGED <<file_hashes, prev>>
          ELSE /\ file_hashes' = InsertOrReplace(file_hashes,
                                NewRow(call.path, call.size, call.mtime, hash_value))
               /\ call' = [call EXCEPT !.pc = "idle", !.ret = hash_value,
                                       !.site = "computed", !.wrote = TRUE]
               /\ prev' = Returned(call.path, call.size, call.mtime, hash_value)

\* one turn of `while chunk := f.read(self.chunk_size)`, and what follows the
\* loop when the chunk is empty
CalcRead ==
    /\ call.pc = "reading"
    /\ \E readFails \in BOOLEAN :
        LET content == fs[call.path].content
        IN  IF readFails
            THEN /\ call' = [call EXCEPT !.pc = "idle", !.site = "error",
                                         !.raised = "read"]
                 /\ UNCHANGED <<file_hashes, prev>>
            ELSE IF call.pos = Len(content)
            THEN CalcFinish
            ELSE IF kill_now
            THEN IF CancelStatement = "return None"
                 THEN /\ call' = [call EXCEPT !.pc = "idle", !.site = "cancel",
                                              !.reads = @ + 1]
                      /\ UNCHANGED <<file_hashes, prev>>
                 ELSE CalcFinish
            ELSE /\ call' = [call EXCEPT
                               !.hasher = sha256_update(@, content[call.pos + 1]),
                               !.pos = @ + 1, !.reads = @ + 1]
                 /\ UNCHANGED <<file_hashes, prev>>
    /\ UNCHANGED <<clock, op, lastStore, evicted, fs, kill_now, stats, classVars, scanVars, poolVars, mainVars>>

\* GracefulKiller._handle_signal
HandleSignal ==
    /\ ~kill_now
    /\ kill_now' = TRUE
    /\ killedAt' = pc
    /\ UNCHANGED <<cacheVars, calcRest, classVars, scanRest, poolVars, mainVars>>

\* between two calls somebody rewrites or touches a file
ModifyFile(p) ==
    /\ call.pc = "idle"
    /\ \E c \in FileContents, m \in Mtimes :
        /\ [content |-> c, mtime |-> m] # fs[p]
        /\ fs' = [fs EXCEPT ![p] = [content |-> c, mtime |-> m]]
        /\ prev' = IF Len(c) = st_size(p) /\ m = st_mtime(p)
                   THEN prev ELSE [prev EXCEPT ![p] = NoPrev]
    /\ UNCHANGED <<cacheVars, kill_now, call, stats, classVars, scanVars, poolVars, mainVars>>

CalcNext ==
    \/ \E p \in Paths : CalcBegin(p)
    \/ CalcRead
    \/ HandleSignal
    \/ \E p \in Paths : ModifyFile(p)

CalcSpec == CalcInit /\ [][CalcNext]_vars

(***************************************************************************)
(* Claims about HashCache, checked under CacheSpec.                        *)
(***************************************************************************)
\* the latest store_hash for the path of the lookup, if its row is current
CurrentStore(p) == lastStore[p].n > 0 /\ p \notin evicted

\* C1: get_hash(path, size, mtime) returns a hash if and only if the current
\* entry of the path was stored with exactly that size and that mtime, and
\* then it returns the hash of that store; a lookup whose size or mtime
\* differs from the stored entry is a miss, never the stale hash.
C1_LookupMatchesStore ==
    op.name = "get_hash" =>
        LET ls == lastStore[op.path]
        IN  /\ (op.ret # None) <=>
                 (CurrentStore(op.path) /\ ls.size = op.size /\ ls.mtime = op.mtime)
            /\ op.ret # None => op.ret = ls.hash

\* a lookup with the stored size and another mtime has reported a miss
C1_Witness ==
    /\ op.name = "get_hash"
    /\ CurrentStore(op.path)
    /\ lastStore[op.path].size = op.size
    /\ lastStore[op.path].mtime # op.mtime
    /\ op.ret = None

\* C2: the table holds at most one row per path, and the size, mtime and
\* hash of that row are the arguments of the latest store_hash for the path.
C2_OneEntryPerPath ==
    /\ \A r1, r2 \in file_hashes : r1.file_path = r2.file_path => r1 = r2
    /\ \A r \in file_hashes :
          LET ls == lastStore[r.file_path]
          IN  /\ ls.n > 0
              /\ r.file_size = ls.size
              /\ r.modified_time = ls.mtime
              /\ r.hash_sha256 = ls.hash

\* a second store_hash for a path has just replaced its row
C2_Witness ==
    /\ op.name = "store_hash"
    /\ lastStore[op.path].n = 2
    /\ \E r \in file_hashes : r.file_path = op.path /\ r.hash_sha256 = op.hash
    /\ Cardinality(file_hashes) = 2

\* the entry of path p in the table
Entry(rows, p) == {r \in rows : r.file_path = p}

\* the age of the entry of path p: the time since it was stored or, if a
\* lookup hit it since, since the latest hit
Age(p) == clock - lastStore[p].touched

\* C25: cleanup_cache(d) removes exactly the entries that were last touched
\* (stored, or hit by a lookup) more than d days ago and leaves every other
\* entry as it is; a step of get_hash, store_hash or get_stats leaves no
\* path without the entry it had.
C25_CleanupRemovesExactlyOld ==
    [][IF op'.name = "cleanup_cache" /\ clock' = clock
       THEN file_hashes' =
               {r \in file_hashes : ~(Age(r.file_path) > op'.days * TicksPerDay)}
       ELSE \A p \in Paths :
               Entry(file_hashes, p) # {} => Entry(file_hashes', p) # {}]_vars

\* cleanup_cache(1) has removed an entry that was stored two days before and
\* kept one that a lookup hit a day ago
C25_Witness ==
    /\ op.name = "cleanup_cache"
    /\ op.days = 1
    /\ \E p, q \in Paths :
          /\ p \in evicted
          /\ Entry(file_hashes, q) # {}
          /\ lastStore[q].hits > 0
          /\ Age(q) = TicksPerDay

\* the lookups that returned a hit for the current entries of the paths S
RECURSIVE SumHits(_)
SumHits(S) ==
    IF S = {} THEN 0
    ELSE LET p == CHOOSE q \in S : TRUE
         IN  lastStore[p].hits + SumHits(S \ {p})

\* C26 as claimed: the total_accesses figure of get_stats is the number of
\* lookups that returned a hit for the entries now in the cache, and
\* total_entries is the number of distinct paths stored.
C26_TotalHitsCountsHits ==
    op.name = "get_stats" =>
        /\ op.accesses = SumHits({p \in Paths : Entry(file_hashes, p) # {}})
        /\ op.entries = Cardinality({p \in Paths : Entry(file_hashes, p) # {}})

\* C29 as claimed: after cleanup_cache(0), the call of --clear-cache, the
\* cache holds no entry, whatever was stored or hit before, also at the
\* clock tick of the clear.
C29_ClearLeavesNothing ==
    (op.name = "cleanup_cache" /\ op.days = 0) => file_hashes = {}
(***************************************************************************)
(* Claims about SmartOrganizer.calculate_hash, checked under CalcSpec.     *)
(***************************************************************************)
\* C8: a call that returned because it saw kill_now while streaming returned
\* no hash and wrote nothing to the table; and every row of the table holds
\* the digest of a complete content of the size it was stored with, never
\* the digest of a prefix.
C8_CancelWritesNothing ==
    /\ call.site = "cancel" => call.ret = None /\ ~call.wrote
    /\ \A r \in file_hashes :
          \E c \in FileContents :
              r.hash_sha256 = SHA256(c) /\ r.file_size = Len(c)

\* a call was cancelled after it had hashed a prefix of the file
C8_Witness ==
    /\ call.site = "cancel"
    /\ call.pos > 0
    /\ call.pos < call.size

\* C9: a call on a file for whose current size and mtime an earlier call
\* returned a hash (no stat failure) returns that same hash as a cache hit:
\* no chunk of the file is read, cache_hits grows by one, cache_misses stays.
C9_SecondCallIsHit ==
    (call.prev0.valid /\ call.site # "error") =>
        /\ call.pc = "idle"
        /\ call.site = "hit"
        /\ call.ret = call.prev0.ret
        /\ call.reads = 0
        /\ stats.cache_hits = call.hits0 + 1
        /\ stats.cache_misses = call.misses0

\* the second call on a file came after a first call that had read the file
\* and stored its hash: the only miss so far, and now the first hit
C9_Witness ==
    /\ call.prev0.valid
    /\ call.site = "hit"
    /\ call.hits0 = 0
    /\ call.misses0 = 1
    /\ call.ret = SHA256(<<"a">>)

\* C14 as claimed: a call of calculate_hash in which hash_cache.get_hash or
\* hash_cache.store_hash raised (the file itself was read without error)
\* still returns the SHA-256 of the file's content.
C14_CacheFailureIsAMiss ==
    (call.pc = "idle" /\ call.raised \in {"get_hash", "store_hash"}) =>
        call.ret = call.truth

(***************************************************************************)
(* analyze_folder_content of smart_organizer.py: the verdict on a sample   *)
(* of file names.  A sample is given by the number of names per suffix.    *)
(***************************************************************************)
\* ANALYSIS_CONFIG
MIN_FILES_FOR_ORGANIZATION == 10
MEDIA_RICH_RATIO_NUM == 3       \* 'MEDIA_RICH_RATIO': 0.3 = 3 / 10
MEDIA_RICH_RATIO_DEN == 10
DOCUMENT_HEAVY_COUNT == 20
MIXED_CONTENT_FILE_COUNT == 50
MIXED_CONTENT_EXT_COUNT == 5

\* str.lower()
lower(ext) == IF ext = ".JPG" THEN ".jpg" ELSE ext

media_extensions == {".jpg", ".jpeg", ".png", ".gif", ".bmp", ".tiff", ".mp4",
                     ".avi", ".mov", ".mp3", ".wav"}
document_extensions == {".pdf", ".doc", ".docx", ".txt", ".rtf", ".xls", ".xlsx",
                        ".ppt", ".pptx"}
code_extensions == {".py", ".js", ".html", ".css", ".cpp", ".java", ".sql",
                    ".json", ".xml"}

RECURSIVE SumOver(_, _)
SumOver(f, S) ==
    IF S = {} THEN 0
    ELSE LET x == CHOOSE y \in S : TRUE IN f[x] + SumOver(f, S \ {x})

\* Counter(Path(f).suffix.lower() for f in files)
ExtensionCounts(fl) ==
    LET exts == {lower(e) : e \in {x \in DOMAIN fl : fl[x] > 0}}
    IN  [e \in exts |-> SumOver(fl, {x \in DOMAIN fl : lower(x) = e})]

\* sum(count for ext, count in extension_counts.items() if ext in category)
CountIn(extension_counts, category) ==
    SumOver(extension_counts, DOMAIN extension_counts \cap category)

Verdict(needs, reason, n) ==
    [needs_organization |-> needs, reason |-> reason, file_count |-> n]

\* the decision logic with the too_small test moved before the media test
analyze_too_small_first(fl) ==
    LET extension_counts == ExtensionCounts(fl)
        media_files == CountIn(extension_counts, media_extensions)
        document_files == CountIn(extension_counts, document_extensions)
        total_files == SumOver(fl, DOMAIN fl)
    IN  IF total_files = 0 THEN Verdict(FALSE, "empty", 0)
        ELSE IF total_files < MIN_FILES_FOR_ORGANIZATION
        THEN Verdict(FALSE, "too_small", total_files)
        ELSE IF media_files * MEDIA_RICH_RATIO_DEN > MEDIA_RICH_RATIO_NUM * total_files
        THEN Verdict(TRUE, "media_rich", total_files)
        ELSE IF document_files > DOCUMENT_HEAVY_COUNT
        THEN Verdict(TRUE, "document_heavy", total_files)
        ELSE IF /\ total_files > MIXED_CONTENT_FILE_COUNT
                /\ Cardinality(DOMAIN extension_counts) > MIXED_CONTENT_EXT_COUNT
        THEN Verdict(TRUE, "mixed_content", total_files)
        ELSE Verdict(FALSE, "not_beneficial", total_files)

\* analyze_folder_content, from `if not files:` on.  media_ratio is
\* media_files / total_files; the comparison with 0.3 is made on integers.
analyze_folder_content(fl) ==
    LET extension_counts == ExtensionCounts(fl)
        media_files == CountIn(extension_counts, media_extensions)
        document_files == CountIn(extension_counts, document_extensions)
        total_files == SumOver(fl, DOMAIN fl)
    IN  IF total_files = 0 THEN Verdict(FALSE, "empty", 0)
        ELSE IF media_files * MEDIA_RICH_RATIO_DEN > MEDIA_RICH_RATIO_NUM * total_files
        THEN Verdict(TRUE, "media_rich", total_files)
        ELSE IF total_files < MIN_FILES_FOR_ORGANIZATION
        THEN Verdict(FALSE, "too_small", total_files)
        ELSE IF document_files > DOCUMENT_HEAVY_COUNT
        THEN Verdict(TRUE, "document_heavy", total_files)
        ELSE IF /\ total_files > MIXED_CONTENT_FILE_COUNT
                /\ Cardinality(DOMAIN extension_counts) > MIXED_CONTENT_EXT_COUNT
        THEN Verdict(TRUE, "mixed_content", total_files)
        ELSE Verdict(FALSE, "not_beneficial", total_files)

\* the samples explored: per suffix, as Path(f).suffix gives it, numbers of
\* files around the thresholds
Samples ==
    {(".jpg" :> a) @@ (".JPG" :> b) @@ (".mp4" :> c) @@ (".pdf" :> d) @@
     (".txt" :> e) @@ (".py" :> f) @@ (".zip" :> g) @@ (".log" :> h) @@ ("" :> i) :
        a \in {0, 1, 3, MIN_FILES_FOR_ORGANIZATION},
        b \in {0, 1}, c \in {0, 1},
        d \in {0, 1, DOCUMENT_HEAVY_COUNT, DOCUMENT_HEAVY_COUNT + 1},
        e \in {0, 7},
        f \in {0, 1, MIN_FILES_FOR_ORGANIZATION, DOCUMENT_HEAVY_COUNT},
        g \in {0, 1, MIN_FILES_FOR_ORGANIZATION, 40},
        h \in {0, 1}, i \in {0, 1}}

\* AnalysisConfig of smart_organizer_ultimate.py
min_files_for_organization == 5
media_rich_ratio_num == 1       \* media_rich_ratio: 0.2 = 1 / 5
media_rich_ratio_den == 5
document_heavy_count == 15
mixed_content_file_count == 30
mixed_content_ext_count == 4

\* FILE_CATEGORIES, in the order of the dictionary: category, extensions
FILE_CATEGORIES ==
    << <<"images", {".jpg", ".jpeg", ".png", ".gif", ".bmp", ".tiff", ".tif",
                    ".webp", ".svg", ".ico", ".raw", ".cr2", ".nef", ".arw"}>>,
       <<"videos", {".mp4", ".avi", ".mkv", ".mov", ".wmv", ".flv", ".webm",
                    ".m4v", ".mpg", ".mpeg", ".3gp", ".f4v"}>>,
       <<"audio", {".mp3", ".wav", ".flac", ".aac", ".ogg", ".wma", ".m4a",
                   ".opus", ".ape"}>>,
       <<"documents", {".pdf", ".doc", ".docx", ".txt", ".rtf", ".odt", ".pages"}>>,
       <<"spreadsheets", {".xls", ".xlsx", ".csv", ".ods", ".numbers"}>>,
       <<"presentations", {".ppt", ".pptx", ".odp", ".key"}>>,
       <<"code", {".py", ".js", ".html", ".css", ".cpp", ".java", ".sql",
                  ".json", ".xml", ".php", ".rb", ".go", ".rs", ".swift", ".kt"}>>,
       <<"archives", {".zip", ".rar", ".7z", ".tar", ".gz", ".bz2", ".xz"}>>,
       <<"executables", {".exe", ".msi", ".deb", ".rpm", ".dmg", ".app", ".appx"}>>,
       <<"fonts", {".ttf", ".otf", ".woff", ".woff2", ".eot"}>> >>

\* SmartOrganizer.categorize_file: the first category that lists the suffix
categorize_file(suffix) ==
    LET ext == lower(suffix)
        hits == {n \in DOMAIN FILE_CATEGORIES : ext \in FILE_CATEGORIES[n][2]}
    IN  IF hits = {} THEN "other"
        ELSE FILE_CATEGORIES[CHOOSE n \in hits : \A m \in hits : n <= m][1]

\* category_counts, summed over some categories
CategoryCount(fl, categories) ==
    SumOver(fl, {x \in DOMAIN fl : categorize_file(x) \in categories})

\* the decision logic with the too_small test moved before the media test
SmartOrganizer_too_small_first(fl) ==
    LET extension_counts == ExtensionCounts(fl)
        total_files == SumOver(fl, DOMAIN fl)
        media_files == CategoryCount(fl, {"images", "videos", "audio"})
        document_files ==
            CategoryCount(fl, {"documents", "spreadsheets", "presentations"})
    IN  IF total_files = 0 THEN Verdict(FALSE, "empty", 0)
        ELSE IF total_files < min_files_for_organization
        THEN Verdict(FALSE, "too_small", total_files)
        ELSE IF media_files * media_rich_ratio_den > media_rich_ratio_num * total_files
        THEN Verdict(TRUE, "media_rich", total_files)
        ELSE IF document_files > document_heavy_count
        THEN Verdict(TRUE, "document_heavy", total_files)
        ELSE IF /\ total_files > mixed_content_file_count
                /\ Cardinality(DOMAIN extension_counts) > mixed_content_ext_count
                /\ 10 * Cardinality(DOMAIN extension_counts) > total_files
        THEN Verdict(TRUE, "mixed_content", total_files)
        ELSE Verdict(FALSE, "not_beneficial", total_files)

\* SmartOrganizer.analyze_folder_content, from `if not files:` on.
\* media_ratio > 0.2 and diversity_score > 0.1 are compared on integers.
SmartOrganizer_analyze_folder_content(fl) ==
    LET extension_counts == ExtensionCounts(fl)
        total_files == SumOver(fl, DOMAIN fl)
        media_files == CategoryCount(fl, {"images", "videos", "audio"})
        document_files ==
            CategoryCount(fl, {"documents", "spreadsheets", "presentations"})
    IN  IF total_files = 0 THEN Verdict(FALSE, "empty", 0)
        ELSE IF media_files * media_rich_ratio_den > media_rich_ratio_num * total_files
        THEN Verdict(TRUE, "media_rich", total_files)
        ELSE IF total_files < min_files_for_organization
        THEN Verdict(FALSE, "too_small", total_files)
        ELSE IF document_files > document_heavy_count
        THEN Verdict(TRUE, "document_heavy", total_files)
        ELSE IF /\ total_files > mixed_content_file_count
                /\ Cardinality(DOMAIN extension_counts) > mixed_content_ext_count
                /\ 10 * Cardinality(DOMAIN extension_counts) > total_files
        THEN Verdict(TRUE, "mixed_content", total_files)
        ELSE Verdict(FALSE, "not_beneficial", total_files)

ClassifyInit ==
    /\ CacheIdle
    /\ CalcIdle
    /\ ScanIdle
    /\ PoolIdle
    /\ MainIdle
    /\ WalkIdle
    /\ TriageIdle
    /\ EmptyIdle
    /\ files \in Samples
    /\ verdict = NoVerdict
    /\ uverdict = NoVerdict

\* a call of analyze_folder_content on a folder whose walk gave `files`
Analyze ==
    /\ verdict = NoVerdict
    /\ verdict' = analyze_folder_content(files)
    /\ UNCHANGED <<cacheVars, calcVars, files, uverdict, impl, tree, wpos,
                   triageVars, emptyVars, scanVars, poolVars, mainVars>>

\* a call of SmartOrganizer.analyze_folder_content on such a folder
SmartOrganizer_Analyze ==
    /\ uverdict = NoVerdict
    /\ uverdict' = SmartOrganizer_analyze_folder_content(files)
    /\ UNCHANGED <<cacheVars, calcVars, files, verdict, impl, tree, wpos,
                   triageVars, emptyVars, scanVars, poolVars, mainVars>>

ClassifyNext ==
    \/ Analyze
    \/ SmartOrganizer_Analyze

ClassifySpec == ClassifyInit /\ [][ClassifyNext]_vars

(***************************************************************************)
(* Claims about analyze_folder_content, checked under ClassifySpec.        *)
(***************************************************************************)
SampleTotal == SumOver(files, DOMAIN files)
SampleIn(category) == SumOver(files, {x \in DOMAIN files : lower(x) \in category})
SampleSuffixes == {lower(x) : x \in {y \in DOMAIN files : files[y] > 0}}

\* the reason of the first rule that matches the sample, in the order
\* empty, media_rich, too_small, document_heavy, mixed_content
FirstMatch ==
    CASE SampleTotal = 0 -> "empty"
      [] SampleTotal > 0
         /\ 10 * SampleIn(media_extensions) > 3 * SampleTotal -> "media_rich"
      [] SampleTotal > 0
         /\ 10 * SampleIn(media_extensions) <= 3 * SampleTotal
         /\ SampleTotal < 10 -> "too_small"
      [] SampleTotal >= 10
         /\ 10 * SampleIn(media_extensions) <= 3 * SampleTotal
         /\ SampleIn(document_extensions) > 20 -> "document_heavy"
      [] SampleTotal >= 10
         /\ 10 * SampleIn(media_extensions) <= 3 * SampleTotal
         /\ SampleIn(document_extensions) <= 20
         /\ SampleTotal > 50 /\ Cardinality(SampleSuffixes) > 5 -> "mixed_content"
      [] OTHER -> "not_beneficial"

\* C10: analyze_folder_content returns the verdict of the first matching
\* rule: empty, then media_rich (ratio > 0.3), then too_small (< 10 files),
\* then document_heavy (> 20 documents), then mixed_content (> 50 files and
\* > 5 suffixes), else not_beneficial; needed for media_rich, document_heavy
\* and mixed_content only.
C10_FirstMatchingRule ==
    verdict # NoVerdict =>
        /\ verdict.reason = FirstMatch
        /\ verdict.needs_organization =
              (FirstMatch \in {"media_rich", "document_heavy", "mixed_content"})

\* a sample of fewer than 10 files, more than 30% of them media: rule 2
\* decided before rule 3 could
C10_Witness ==
    /\ verdict.reason = "media_rich"
    /\ SampleTotal > 0
    /\ SampleTotal < 10

\* the sampled files of the three media categories of FILE_CATEGORIES
SampleMedia ==
    SampleIn(FILE_CATEGORIES[1][2] \cup FILE_CATEGORIES[2][2] \cup FILE_CATEGORIES[3][2])

\* the sampled files of the three document categories of FILE_CATEGORIES
SampleDocuments ==
    SampleIn(FILE_CATEGORIES[4][2] \cup FILE_CATEGORIES[5][2] \cup FILE_CATEGORIES[6][2])

\* C11: in both classifiers a sample that is not empty and whose media ratio
\* is above the threshold (0.3, and 0.2 in SmartOrganizer) gets the verdict
\* needed / media_rich, however few files it has; too_small is returned
\* only for a sample whose media ratio is not above the threshold.
C11_MediaRichBeforeTooSmall ==
    /\ verdict # NoVerdict =>
          /\ (SampleTotal > 0 /\ 10 * SampleIn(media_extensions) > 3 * SampleTotal)
                => (verdict.needs_organization /\ verdict.reason = "media_rich")
          /\ verdict.reason = "too_small"
                => ~(10 * SampleIn(media_extensions) > 3 * SampleTotal)
    /\ uverdict # NoVerdict =>
          /\ (SampleTotal > 0 /\ 5 * SampleMedia > SampleTotal)
                => (uverdict.needs_organization /\ uverdict.reason = "media_rich")
          /\ uverdict.reason = "too_small" => ~(5 * SampleMedia > SampleTotal)

\* a sample of fewer than 5 files, media among them, was judged media_rich
\* by both classifiers
C11_Witness ==
    /\ verdict.reason = "media_rich"
    /\ uverdict.reason = "media_rich"
    /\ verdict.needs_organization
    /\ uverdict.needs_organization
    /\ SampleTotal < 5

\* C12 as claimed: when none of empty, media_rich, too_small and
\* document_heavy matches, SmartOrganizer.analyze_folder_content says
\* mixed_content (needed) exactly when the sample has more than 30 files
\* and more than 4 distinct suffixes, and not_beneficial otherwise.
C12_MixedContentByCountsAlone ==
    (/\ uverdict # NoVerdict
     /\ SampleTotal >= 5
     /\ 5 * SampleMedia <= SampleTotal
     /\ SampleDocuments <= 15) =>
        IF SampleTotal > 30 /\ Cardinality(SampleSuffixes) > 4
        THEN uverdict.needs_organization /\ uverdict.reason = "mixed_content"
        ELSE ~uverdict.needs_organization /\ uverdict.reason = "not_beneficial"

(***************************************************************************)
(* The walk that samples the files of a folder, in both implementations of *)
(* analyze_folder_content, followed by the decision on the sample.  The    *)
(* tree is the list of directories in the order os.walk yields them, each  *)
(* with its level below folder_path, the number of its files and their     *)
(* suffix.                                                                 *)
(***************************************************************************)
MAX_ANALYSIS_DEPTH == 2
MAX_ANALYSIS_FILES == 200
max_depth == 10
max_analysis_files == 500

\* the levels of the directories of the trees explored, in walk order
Shapes ==
    {<<0>>, <<0, 1>>, <<0, 1, 1>>, <<0, 1, 2, 3, 1>>,
     <<0, 1, 2, 3, 4, 5, 6, 7, 8, 9, 10, 11, 1>>}

\* the numbers of files a directory may hold
FileCounts == {0, 1, MAX_ANALYSIS_FILES, MAX_ANALYSIS_FILES + 1,
               max_analysis_files, max_analysis_files + 1}

Trees ==
    {[i \in 1 .. Len(sh) |->
        [level |-> sh[i],
         n |-> IF i = 1 THEN c1 ELSE IF i = Len(sh) THEN c3 ELSE c2,
         suffix |-> IF i = 1 THEN s1 ELSE ".log"]] :
        sh \in Shapes, c1 \in FileCounts, c2 \in {0, 1}, c3 \in FileCounts,
        s1 \in {".jpg", ".log"}}

\* dirs.clear(); continue: os.walk goes on with the next directory that is
\* not below the one just yielded
SkipSubtree(tr, i) ==
    LET later == {j \in (i + 1) .. Len(tr) : tr[j].level <= tr[i].level}
    IN  IF later = {} THEN Len(tr) + 1
        ELSE CHOOSE j \in later : \A k \in later : j <= k

\* len(files)
len(fl) == SumOver(fl, DOMAIN fl)

\* files.extend / files.append: k more names with the suffix
AddFiles(fl, suffix, k) ==
    IF k = 0 THEN fl
    ELSE [x \in DOMAIN fl \cup {suffix} |->
            IF x = suffix
            THEN (IF x \in DOMAIN fl THEN fl[x] ELSE 0) + k
            ELSE fl[x]]

NoFiles == [x \in {} |-> 0]

\* the names taken from a directory of n files when have are sampled already:
\* smart_organizer.py extends the list by the whole directory and tests the
\* limit after it; SmartOrganizer appends name by name and tests the limit
\* after each
Taken(im, have, n) ==
    IF im = "smart_organizer" THEN n
    ELSE IF have + n > max_analysis_files
         THEN max_analysis_files + 1 - have
         ELSE n

DepthLimit(im) == IF im = "smart_organizer" THEN MAX_ANALYSIS_DEPTH ELSE max_depth
FileLimit(im) == IF im = "smart_organizer" THEN MAX_ANALYSIS_FILES ELSE max_analysis_files

SampleInit ==
    /\ CacheIdle
    /\ CalcIdle
    /\ ScanIdle
    /\ PoolIdle
    /\ MainIdle
    /\ TriageIdle
    /\ EmptyIdle
    /\ impl \in {"smart_organizer", "SmartOrganizer"}
    /\ tree \in Trees
    /\ wpos = 1
    /\ files = NoFiles
    /\ verdict = NoVerdict
    /\ uverdict = NoVerdict

\* one turn of `for root, dirs, filenames in os.walk(folder_path)`
WalkDir ==
    /\ impl # "none"
    /\ wpos <= Len(tree)
    /\ IF tree[wpos].level > DepthLimit(impl)
       THEN /\ wpos' = SkipSubtree(tree, wpos)
            /\ UNCHANGED files
       ELSE /\ files' = AddFiles(files, tree[wpos].suffix,
                                 Taken(impl, len(files), tree[wpos].n))
            /\ wpos' = IF len(files') > FileLimit(impl)
                       THEN Len(tree) + 1
                       ELSE wpos + 1
    /\ UNCHANGED <<cacheVars, calcVars, verdict, uverdict, impl, tree,
                   triageVars, emptyVars, scanVars, poolVars, mainVars>>

\* after the loop: `if not files:` and the decision logic
Decide ==
    /\ impl # "none"
    /\ wpos = Len(tree) + 1
    /\ IF impl = "smart_organizer"
       THEN /\ verdict' = analyze_folder_content(files)
            /\ UNCHANGED uverdict
       ELSE /\ uverdict' = SmartOrganizer_analyze_folder_content(files)
            /\ UNCHANGED verdict
    /\ wpos' = Len(tree) + 2
    /\ UNCHANGED <<cacheVars, calcVars, files, impl, tree,
                   triageVars, emptyVars, scanVars, poolVars, mainVars>>

SampleNext ==
    \/ WalkDir
    \/ Decide

SampleSpec == SampleInit /\ [][SampleNext]_vars

\* C13 as claimed: the file_count of a verdict never exceeds the sample
\* limit of its classifier (200 files, and 500 in SmartOrganizer), whatever
\* the tree.
C13_SampleWithinLimit ==
    /\ verdict.file_count <= 200
    /\ uverdict.file_count <= 500

(***************************************************************************)
(* is_system_folder of both files and _analyze_one_directory of            *)
(* smart_organizer.py.  A folder name is the sequence of its characters;   *)
(* an entry of os.listdir is given by the suffix its name ends with.  The  *)
(* folders looked at hold files only, so the files analyze_folder_content  *)
(* samples are the entries of the listing.                                 *)
(***************************************************************************)
\* str.lower(), str.startswith(), str.endswith() and `sub in s`
char_lower(c) ==
    LET ascii_uppercase ==
            <<"A", "B", "C", "D", "E", "F", "G", "H", "I", "J", "K", "L", "M",
              "N", "O", "P", "Q", "R", "S", "T", "U", "V", "W", "X", "Y", "Z">>
        ascii_lowercase ==
            <<"a", "b", "c", "d", "e", "f", "g", "h", "i", "j", "k", "l", "m",
              "n", "o", "p", "q", "r", "s", "t", "u", "v", "w", "x", "y", "z">>
    IN  IF \E i \in 1 .. 26 : ascii_uppercase[i] = c
        THEN ascii_lowercase[CHOOSE i \in 1 .. 26 : ascii_uppercase[i] = c]
        ELSE c
str_lower(s) == [i \in 1 .. Len(s) |-> char_lower(s[i])]
str_startswith(s, prefix) ==
    Len(prefix) <= Len(s) /\ SubSeq(s, 1, Len(prefix)) = prefix
str_endswith(s, suffix) ==
    Len(suffix) <= Len(s) /\ SubSeq(s, Len(s) - Len(suffix) + 1, Len(s)) = suffix
str_in(sub, s) ==
    \E i \in 1 .. (Len(s) - Len(sub) + 1) : SubSeq(s, i, i + Len(sub) - 1) = sub

\* SYSTEM_FOLDERS of smart_organizer.py
SYSTEM_FOLDERS ==
    {<<"n", "o", "d", "e", "_", "m", "o", "d", "u", "l", "e", "s">>,
     <<"_", "_", "p", "y", "c", "a", "c", "h", "e", "_", "_">>,
     <<".", "g", "i", "t">>,
     <<".", "s", "v", "n">>,
     <<".", "h", "g">>,
     <<"s", "i", "t", "e", "-", "p", "a", "c", "k", "a", "g", "e", "s">>,
     <<"p", "i", "p">>,
     <<"c", "o", "n", "d", "a">>,
     <<"a", "n", "a", "c", "o", "n", "d", "a", "3">>,
     <<"m", "i", "n", "i", "c", "o", "n", "d", "a", "3">>,
     <<"v", "e", "n", "v">>,
     <<"v", "i", "r", "t", "u", "a", "l", "e", "n", "v">>,
     <<".", "v", "e", "n", "v">>,
     <<"e", "n", "v">>,
     <<"S", "y", "s", "t", "e", "m", " ", "V", "o", "l", "u", "m", "e", " ", "I", "n", "f", "o", "r", "m", "a", "t", "i", "o", "n">>,
     <<"$", "R", "E", "C", "Y", "C", "L", "E", ".", "B", "I", "N">>,
     <<"R", "e", "c", "o", "v", "e", "r", "y">>,
     <<".", "T", "r", "a", "s", "h">>,
     <<".", "c", "a", "c", "h", "e">>,
     <<"c", "a", "c", "h", "e">>,
     <<"t", "e", "m", "p">>,
     <<"t", "m", "p">>,
     <<"T", "e", "m", "p">>,
     <<"A", "p", "p", "D", "a", "t", "a">>,
     <<"A", "p", "p", "l", "i", "c", "a", "t", "i", "o", "n", " ", "D", "a", "t", "a">>,
     <<"P", "r", "o", "g", "r", "a", "m", "D", "a", "t", "a">>,
     <<"P", "r", "o", "g", "r", "a", "m", " ", "F", "i", "l", "e", "s">>,
     <<"b", "u", "i", "l", "d">>,
     <<"d", "i", "s", "t">>,
     <<"t", "a", "r", "g", "e", "t">>,
     <<"b", "i", "n">>,
     <<"o", "b", "j">>,
     <<".", "v", "s">>,
     <<".", "v", "s", "c", "o", "d", "e">>,
     <<"D", "e", "b", "u", "g">>,
     <<"R", "e", "l", "e", "a", "s", "e">>,
     <<"x", "6", "4">>,
     <<"x", "8", "6">>,
     <<"O", "r", "g", "a", "n", "i", "z", "e", "d", "_">>,
     <<"A", "n", "a", "l", "y", "s", "i", "s", "_", "R", "e", "p", "o", "r", "t", "_">>,
     <<"B", "a", "c", "k", "u", "p", "_">>,
     <<"A", "r", "c", "h", "i", "v", "e", "_">>}

\* SYSTEM_PATTERNS: '$', '.', '~', '#', '.cache', '_temp', '_backup', '.tmp'
SYSTEM_PATTERNS ==
    {<<"$">>,
     <<".">>,
     <<"~">>,
     <<"#">>,
     <<".", "c", "a", "c", "h", "e">>,
     <<"_", "t", "e", "m", "p">>,
     <<"_", "b", "a", "c", "k", "u", "p">>,
     <<".", "t", "m", "p">>}

\* package_indicators of is_system_folder
package_indicators ==
    {<<"s", "e", "t", "u", "p">>,
     <<"i", "n", "s", "t", "a", "l", "l">>,
     <<"p", "a", "c", "k", "a", "g", "e">>,
     <<"l", "i", "b">>,
     <<"i", "n", "c", "l", "u", "d", "e">>,
     <<"s", "h", "a", "r", "e">>}

\* SYSTEM_FOLDERS of smart_organizer_ultimate.py
SmartOrganizer_SYSTEM_FOLDERS ==
    {<<"n", "o", "d", "e", "_", "m", "o", "d", "u", "l", "e", "s">>,
     <<"_", "_", "p", "y", "c", "a", "c", "h", "e", "_", "_">>,
     <<".", "g", "i", "t">>,
     <<".", "s", "v", "n">>,
     <<".", "h", "g">>,
     <<"v", "e", "n", "d", "o", "r">>,
     <<"s", "i", "t", "e", "-", "p", "a", "c", "k", "a", "g", "e", "s">>,
     <<"p", "i", "p">>,
     <<"c", "o", "n", "d", "a">>,
     <<"a", "n", "a", "c", "o", "n", "d", "a", "3">>,
     <<"m", "i", "n", "i", "c", "o", "n", "d", "a", "3">>,
     <<"v", "e", "n", "v">>,
     <<"v", "i", "r", "t", "u", "a", "l", "e", "n", "v">>,
     <<".", "v", "e", "n", "v">>,
     <<"e", "n", "v">>,
     <<".", "e", "n", "v">>,
     <<"S", "y", "s", "t", "e", "m", " ", "V", "o", "l", "u", "m", "e", " ", "I", "n", "f", "o", "r", "m", "a", "t", "i", "o", "n">>,
     <<"$", "R", "E", "C", "Y", "C", "L", "E", ".", "B", "I", "N">>,
     <<"R", "e", "c", "o", "v", "e", "r", "y">>,
     <<"h", "i", "b", "e", "r", "f", "i", "l", ".", "s", "y", "s">>,
     <<".", "T", "r", "a", "s", "h">>,
     <<".", "c", "a", "c", "h", "e">>,
     <<"c", "a", "c", "h", "e">>,
     <<"t", "e", "m", "p">>,
     <<"t", "m", "p">>,
     <<"T", "e", "m", "p">>,
     <<"t", "e", "m", "p", "o", "r", "a", "r", "y", " ", "f", "i", "l", "e", "s">>,
     <<"A", "p", "p", "D", "a", "t", "a">>,
     <<"A", "p", "p", "l", "i", "c", "a", "t", "i", "o", "n", " ", "D", "a", "t", "a">>,
     <<"P", "r", "o", "g", "r", "a", "m", "D", "a", "t", "a">>,
     <<"P", "r", "o", "g", "r", "a", "m", " ", "F", "i", "l", "e", "s">>,
     <<"P", "r", "o", "g", "r", "a", "m", " ", "F", "i", "l", "e", "s", " ", "(", "x", "8", "6", ")">>,
     <<"W", "i", "n", "d", "o", "w", "s">>,
     <<"S", "y", "s", "t", "e", "m", "3", "2">>,
     <<"S", "y", "s", "W", "O", "W", "6", "4">>,
     <<"b", "u", "i", "l", "d">>,
     <<"d", "i", "s", "t">>,
     <<"t", "a", "r", "g", "e", "t">>,
     <<"b", "i", "n">>,
     <<"o", "b", "j">>,
     <<".", "v", "s">>,
     <<".", "v", "s", "c", "o", "d", "e">>,
     <<".", "i", "d", "e", "a">>,
     <<"D", "e", "b", "u", "g">>,
     <<"R", "e", "l", "e", "a", "s", "e">>,
     <<"x", "6", "4">>,
     <<"x", "8", "6">>,
     <<"o", "u", "t">>,
     <<"O", "r", "g", "a", "n", "i", "z", "e", "d", "_">>,
     <<"A", "n", "a", "l", "y", "s", "i", "s", "_", "R", "e", "p", "o", "r", "t", "_">>,
     <<"B", "a", "c", "k", "u", "p", "_">>,
     <<"A", "r", "c", "h", "i", "v", "e", "_">>,
     <<"S", "m", "a", "r", "t", "_", "A", "n", "a", "l", "y", "s", "i", "s", "_">>,
     <<".", "d", "r", "o", "p", "b", "o", "x">>,
     <<".", "o", "n", "e", "d", "r", "i", "v", "e">>,
     <<".", "g", "o", "o", "g", "l", "e", "d", "r", "i", "v", "e">>,
     <<"i", "C", "l", "o", "u", "d">>,
     <<".", "s", "y", "n", "c">>}

\* system_patterns and the suffixes of SmartOrganizer.is_system_folder
system_patterns ==
    {<<"$">>,
     <<".">>,
     <<"~">>,
     <<"#">>}
system_suffixes ==
    {<<"_", "c", "a", "c", "h", "e">>,
     <<"_", "t", "e", "m", "p">>,
     <<"_", "b", "a", "c", "k", "u", "p">>,
     <<".", "t", "m", "p">>}

\* package_indicators of SmartOrganizer.is_system_folder
SmartOrganizer_package_indicators ==
    {<<"s", "e", "t", "u", "p">>,
     <<"i", "n", "s", "t", "a", "l", "l">>,
     <<"p", "a", "c", "k", "a", "g", "e">>,
     <<"l", "i", "b">>,
     <<"i", "n", "c", "l", "u", "d", "e">>,
     <<"s", "h", "a", "r", "e">>,
     <<"b", "i", "n">>}

\* the folder names looked at: those of test_is_system_folder, and names
\* that differ from a denylist entry in case, place or length
name_dot_git == <<".", "g", "i", "t">>
name_my_build_scripts == <<"m", "y", "_", "b", "u", "i", "l", "d", "_", "s", "c", "r", "i", "p", "t", "s">>
name_photos == <<"p", "h", "o", "t", "o", "s">>
FolderNames ==
    {<<"n", "o", "d", "e", "_", "m", "o", "d", "u", "l", "e", "s">>,
     name_dot_git,
     <<"$", "R", "E", "C", "Y", "C", "L", "E", ".", "B", "I", "N">>,
     <<"v", "e", "n", "v">>,
     <<"b", "u", "i", "l", "d">>,
     <<"O", "r", "g", "a", "n", "i", "z", "e", "d", "_", "P", "h", "o", "t", "o", "s">>,
     <<"m", "y", "-", "p", "r", "o", "j", "e", "c", "t", ".", "c", "a", "c", "h", "e">>,
     <<".", "t", "e", "m", "p">>,
     <<"M", "y", " ", "P", "h", "o", "t", "o", "s">>,
     <<"p", "r", "o", "j", "e", "c", "t", "_", "f", "i", "l", "e", "s">>,
     name_my_build_scripts,
     <<"M", "y", ".", "C", "A", "C", "H", "E">>,
     <<"B", "u", "i", "l", "d">>,
     <<"n", "o", "t", "e", "s", "~">>,
     <<"o", "l", "d", "_", "b", "a", "c", "k", "u", "p">>,
     <<"m", "y", "l", "i", "b">>,
     <<"S", "e", "t", "u", "p", " ", "F", "i", "l", "e", "s">>,
     <<"c", "a", "b", "i", "n", "e", "t">>,
     <<"b", "i", "n", "a", "r", "i", "e", "s">>,
     name_photos,
     <<"v", "e", "n", "d", "o", "r">>,
     <<"s", "i", "t", "e", "_", "c", "a", "c", "h", "e">>}

\* the entries os.listdir may give: each by the suffix of its name
Run(entry, n) == [i \in 1 .. n |-> entry]
Listings ==
    {Run(pair[1], x) \o Run(pair[2], y) :
        pair \in {<<".dll", ".jpg">>, <<".jpg", ".dll">>, <<".lib", ".jpg">>},
        x \in {0, 2, 3, 10, 11}, y \in {0, 3, 10, 40}}

\* the items handed to _analyze_one_directory: a plain file, a directory
\* that cannot be listed, or a directory with its listing
Items ==
    {[name |-> n, isdir |-> FALSE, readable |-> FALSE, listing |-> <<>>] :
        n \in FolderNames}
    \cup {[name |-> n, isdir |-> TRUE, readable |-> FALSE, listing |-> <<>>] :
        n \in FolderNames}
    \cup {[name |-> n, isdir |-> TRUE, readable |-> TRUE, listing |-> l] :
        n \in FolderNames, l \in Listings}

\* os.listdir(folder_path)[:n]
first(listing, n) == SubSeq(listing, 1, IF Len(listing) < n THEN Len(listing) ELSE n)

\* sum(1 for f in files if f.endswith(suffixes))
system_files(sample, suffixes) ==
    Cardinality({i \in DOMAIN sample : sample[i] \in suffixes})

\* is_system_folder with the denylist matched anywhere in the name
is_system_folder_anywhere(folder_name, folder_path) ==
    \/ \E system_folder \in SYSTEM_FOLDERS : str_in(system_folder, folder_name)
    \/ \E pattern \in SYSTEM_PATTERNS : str_in(pattern, str_lower(folder_name))

\* is_system_folder(folder_name, folder_path) of smart_organizer.py; the
\* comparison system_files > len(files) * 0.5 is made in whole numbers
is_system_folder(folder_name, folder_path) ==
    LET folder_lower == str_lower(folder_name)
    IN  IF \E system_folder \in SYSTEM_FOLDERS :
              str_startswith(folder_name, system_folder)
        THEN TRUE
        ELSE IF \E pattern \in SYSTEM_PATTERNS :
                   \/ str_startswith(folder_name, pattern)
                   \/ str_endswith(folder_lower, pattern)
        THEN TRUE
        ELSE IF /\ \E indicator \in package_indicators : str_in(indicator, folder_lower)
                /\ folder_path.readable
        THEN LET sample == first(folder_path.listing, 20)
             IN  2 * system_files(sample, {".py", ".pyc", ".exe", ".dll", ".so", ".a"})
                    > Len(sample)
        ELSE FALSE

\* SmartOrganizer.is_system_folder(folder_name, folder_path); the comparison
\* system_files > len(sample_files) * 0.4 is made in whole numbers
SmartOrganizer_is_system_folder(folder_name, folder_path) ==
    LET folder_lower == str_lower(folder_name)
    IN  IF \E sf \in SmartOrganizer_SYSTEM_FOLDERS : str_startswith(folder_name, sf)
        THEN TRUE
        ELSE IF \E p \in system_patterns :
                   \/ str_startswith(folder_name, p)
                   \/ \E suffix \in system_suffixes : str_endswith(folder_lower, suffix)
        THEN TRUE
        ELSE IF /\ \E indicator \in SmartOrganizer_package_indicators :
                      str_in(indicator, folder_lower)
                /\ folder_path.readable
        THEN LET sample_files == first(folder_path.listing, 50)
             IN  5 * system_files(sample_files,
                        {".py", ".pyc", ".exe", ".dll", ".so", ".a", ".lib"})
                    > 2 * Len(sample_files)
        ELSE FALSE

\* the files os.walk(folder_path) collects in analyze_folder_content for a
\* folder that holds files only: suffix -> number of files
walked(folder_path) ==
    [x \in {folder_path.listing[i] : i \in DOMAIN folder_path.listing} |->
        Cardinality({i \in DOMAIN folder_path.listing : folder_path.listing[i] = x})]

OneResult(kind, why, analysis) ==
    [returned |-> TRUE, none |-> kind = "None", type |-> kind, reason |-> why,
     analysis |-> analysis]

\* _analyze_one_directory with the classifier called before the denylist
analyze_one_directory_classify_first(it) ==
    LET analysis == analyze_folder_content(walked(it))
    IN  IF ~it.isdir THEN OneResult("None", "", NoVerdict)
        ELSE IF is_system_folder(it.name, it)
        THEN OneResult("skipped", "system_folder", analysis)
        ELSE IF analysis.needs_organization
        THEN OneResult("candidate", "", analysis)
        ELSE OneResult("skipped", analysis.reason, analysis)

\* _analyze_one_directory((item, root_path)): the value returned, and in
\* field analysis what analyze_folder_content returned if it was called
analyze_one_directory(it) ==
    IF ~it.isdir THEN OneResult("None", "", NoVerdict)
    ELSE IF is_system_folder(it.name, it)
    THEN OneResult("skipped", "system_folder", NoVerdict)
    ELSE LET analysis == analyze_folder_content(walked(it))
         IN  IF analysis.needs_organization
             THEN OneResult("candidate", "", analysis)
             ELSE OneResult("skipped", analysis.reason, analysis)

TriageInit ==
    /\ CacheIdle
    /\ CalcIdle
    /\ ScanIdle
    /\ PoolIdle
    /\ MainIdle
    /\ WalkIdle
    /\ EmptyIdle
    /\ item \in Items
    /\ files = walked(item)
    /\ verdict = NoVerdict
    /\ uverdict = NoVerdict
    /\ one_result = NoResult
    /\ system = NoAnswer
    /\ usystem = NoAnswer

triageRest == <<cacheVars, calcVars, files, uverdict, impl, tree, wpos,
                emptyVars, scanVars, poolVars, mainVars>>

\* a call of is_system_folder(item, item_path)
IsSystemFolder ==
    /\ ~system.called
    /\ system' = [called |-> TRUE, value |-> is_system_folder(item.name, item)]
    /\ UNCHANGED <<triageRest, item, one_result, usystem, verdict>>

\* a call of SmartOrganizer.is_system_folder(basename, path)
SmartOrganizer_IsSystemFolder ==
    /\ ~usystem.called
    /\ usystem' = [called |-> TRUE,
                   value |-> SmartOrganizer_is_system_folder(item.name, item)]
    /\ UNCHANGED <<triageRest, item, one_result, system, verdict>>

\* a call of _analyze_one_directory((item, root_path)); verdict is what
\* analyze_folder_content returned in it, if it was called
AnalyzeOne ==
    /\ ~one_result.returned
    /\ one_result' = analyze_one_directory(item)
    /\ verdict' = one_result'.analysis
    /\ UNCHANGED <<triageRest, item, system, usystem>>

TriageNext ==
    \/ IsSystemFolder
    \/ SmartOrganizer_IsSystemFolder
    \/ AnalyzeOne

TriageSpec == TriageInit /\ [][TriageNext]_vars

(***************************************************************************)
(* Claims about is_system_folder and _analyze_one_directory, checked under *)
(* TriageSpec.                                                             *)
(***************************************************************************)
\* C22: _analyze_one_directory returns None for an item that is not a
\* directory; for a directory that is_system_folder reports it returns a
\* skipped result with reason system_folder and analyze_folder_content is
\* not called; otherwise analyze_folder_content is called and the result is
\* a candidate exactly when it reports needs_organization, else a skipped
\* result with the reason of the classifier.
C22_DecisionOrder ==
    one_result.returned =>
        IF ~item.isdir
        THEN one_result.none /\ verdict = NoVerdict
        ELSE IF is_system_folder(item.name, item)
        THEN /\ one_result.type = "skipped"
             /\ one_result.reason = "system_folder"
             /\ verdict = NoVerdict
        ELSE /\ verdict = analyze_folder_content(files)
             /\ one_result.type = "candidate" <=> verdict.needs_organization
             /\ ~verdict.needs_organization =>
                   /\ one_result.type = "skipped"
                   /\ one_result.reason = verdict.reason

\* a system folder whose files the classifier would have found worth
\* organizing was skipped without the classifier being called
C22_Witness ==
    /\ one_result.returned
    /\ item.isdir
    /\ one_result.reason = "system_folder"
    /\ verdict = NoVerdict
    /\ analyze_folder_content(files).needs_organization

\* the sample of is_system_folder (n entries of the listing) holds more
\* installation or binary artifacts than num / den of its entries
Dominated(n, suffixes, num, den) ==
    /\ item.readable
    /\ LET sample == first(item.listing, n)
       IN  den * system_files(sample, suffixes) > num * Len(sample)

\* C23 as claimed: a directory whose sampled entries are dominated by
\* installation or binary artifacts (more than 50% in smart_organizer.py,
\* more than 40% in SmartOrganizer) is reported by is_system_folder and is
\* not classified, whatever its name.
C23_DominatedByArtifacts ==
    /\ (system.called
        /\ Dominated(20, {".py", ".pyc", ".exe", ".dll", ".so", ".a"}, 1, 2))
       => system.value
    /\ (usystem.called
        /\ Dominated(50, {".py", ".pyc", ".exe", ".dll", ".so", ".a", ".lib"}, 2, 5))
       => usystem.value
    /\ (one_result.returned
        /\ Dominated(20, {".py", ".pyc", ".exe", ".dll", ".so", ".a"}, 1, 2))
       => verdict = NoVerdict

\* the name starts with an entry of SYSTEM_FOLDERS or with $ . ~ #, or ends,
\* in lower case, with .cache, _temp, _backup or .tmp
SystemPrefixes == {pattern \in SYSTEM_PATTERNS : Len(pattern) = 1}
ListedSuffixes == {pattern \in SYSTEM_PATTERNS : Len(pattern) > 1}
Denylisted(folder_name) ==
    \/ \E system_folder \in SYSTEM_FOLDERS : str_startswith(folder_name, system_folder)
    \/ \E prefix \in SystemPrefixes : str_startswith(folder_name, prefix)
    \/ \E suffix \in ListedSuffixes : str_endswith(str_lower(folder_name), suffix)

\* an entry of the denylist occurs inside the name, and none at either end
OnlyInTheMiddle(folder_name) ==
    /\ \E entry \in SYSTEM_FOLDERS \cup SYSTEM_PATTERNS :
          str_in(entry, SubSeq(folder_name, 2, Len(folder_name) - 1))
    /\ \A entry \in SYSTEM_FOLDERS \cup SYSTEM_PATTERNS :
          /\ ~str_startswith(folder_name, entry)
          /\ ~str_endswith(folder_name, entry)
          /\ ~str_endswith(str_lower(folder_name), entry)

\* C24: is_system_folder of smart_organizer.py returns True for a name that
\* starts with an entry of SYSTEM_FOLDERS or with one of $ . ~ #, or that
\* ends, whatever the case of its letters, with one of the listed suffixes;
\* it returns False for a name that has a denylist entry only in its middle
\* and holds no package indicator.
C24_PrefixAndSuffixMatch ==
    system.called =>
        /\ Denylisted(item.name) => system.value
        /\ (/\ OnlyInTheMiddle(item.name)
            /\ ~\E indicator \in package_indicators :
                   str_in(indicator, str_lower(item.name)))
           => ~system.value

\* my_build_scripts, which holds `build` in its middle, was not reported
C24_Witness ==
    /\ system.called
    /\ item.name = name_my_build_scripts
    /\ OnlyInTheMiddle(item.name)
    /\ ~system.value
(***************************************************************************)
(* SmartOrganizer.find_empty_folders and cleanup_empty_folders.  The       *)
(* folders of the tree are numbered in the order in which                  *)
(* os.walk(directory, topdown=False) yields them: every folder after all   *)
(* the folders below it, the directory itself last.                        *)
(***************************************************************************)
MaxFolders == 4    \* folders of the tree that is cleaned up

\* the parents (0: none) of the folders of a tree of n folders
PostOrders(n) ==
    {parent \in [1 .. n -> 0 .. n] :
        /\ parent[n] = 0
        /\ \A i \in 1 .. (n - 1) :
              /\ parent[i] > i
              /\ \A j \in (i + 1) .. (parent[i] - 1) : parent[j] <= parent[i]}

\* the trees explored: per folder its name, the number of files in it, and
\* the number of entries of `dirs` that the walk does not enter (links to
\* directories, directories that cannot be listed); at most one folder has
\* a system name and at most one has such an entry
FolderTrees ==
    UNION {
        {[i \in 1 .. n |->
            [parent |-> parent[i],
             name |-> IF i = dot THEN name_dot_git ELSE name_photos,
             files |-> IF i \in withFile THEN 1 ELSE 0,
             links |-> IF i = link THEN 1 ELSE 0]] :
            parent \in PostOrders(n), withFile \in SUBSET (1 .. n),
            dot \in 0 .. n, link \in 0 .. n} :
        n \in 1 .. MaxFolders}

\* `dirs` of the tuple os.walk yields for root: the folders directly below
walk_dirs(root) == {subdir \in 1 .. Len(folders) : folders[subdir].parent = root}

\* what is_system_folder is given for root
folder_path(root) ==
    [readable |-> TRUE, listing |-> Run(".jpg", folders[root].files)]

\* find_empty_folders with every folder without files taken as empty
has_content_never(root, found) == FALSE

\* the loop over `dirs` of find_empty_folders: has_content
has_content(root, found) ==
    \/ folders[root].links > 0
    \/ \E subdir \in walk_dirs(root) : \A k \in 1 .. Len(found) : found[k] # subdir

EmptyInit ==
    /\ CacheIdle
    /\ CalcIdle
    /\ ScanIdle
    /\ PoolIdle
    /\ MainIdle
    /\ files = <<>>
    /\ verdict = NoVerdict
    /\ uverdict = NoVerdict
    /\ WalkIdle
    /\ TriageIdle
    /\ folders \in FolderTrees
    /\ dry_run \in BOOLEAN
    /\ epc = "find"
    /\ epos = 1
    /\ empty_folders = <<>>
    /\ deleted = {}

emptyRest == <<cacheVars, calcVars, files, verdict, uverdict, impl, tree, wpos,
               triageVars, scanVars, poolVars, mainVars, folders, dry_run>>

\* find_empty_folders: one turn of
\* `for root, dirs, files in os.walk(directory, topdown=False)`
FindStep ==
    /\ epc = "find"
    /\ IF epos > Len(folders) \/ kill_now
       THEN /\ epc' = "found"
            /\ UNCHANGED <<epos, empty_folders>>
       ELSE /\ epc' = "find"
            /\ epos' = epos + 1
            /\ empty_folders' =
                  IF SmartOrganizer_is_system_folder(folders[epos].name,
                                                     folder_path(epos))
                  THEN empty_folders
                  ELSE IF folders[epos].files = 0
                          /\ walk_dirs(epos) = {} /\ folders[epos].links = 0
                  THEN Append(empty_folders, epos)
                  ELSE IF folders[epos].files = 0
                          /\ ~has_content(epos, empty_folders)
                  THEN Append(empty_folders, epos)
                  ELSE empty_folders
    /\ UNCHANGED <<emptyRest, deleted>>

\* cleanup_empty_folders: find_empty_folders has returned; nothing found,
\* or the folders are shown and, with confirm, the user is asked
Confirm ==
    /\ epc = "found"
    /\ \E goOn \in BOOLEAN :
          IF empty_folders = <<>> \/ ~goOn
          THEN epc' = "done" /\ UNCHANGED epos
          ELSE epc' = "delete" /\ epos' = 1
    /\ UNCHANGED <<emptyRest, empty_folders, deleted>>

\* cleanup_empty_folders: one turn of `for folder in empty_folders`;
\* send2trash or os.rmdir may raise, which is logged
DeleteStep ==
    /\ epc = "delete"
    /\ IF epos > Len(empty_folders) \/ kill_now
       THEN /\ epc' = "done"
            /\ UNCHANGED <<epos, deleted>>
       ELSE /\ epc' = "delete"
            /\ epos' = epos + 1
            /\ \E raises \in BOOLEAN :
                  deleted' = IF ~dry_run /\ ~raises
                             THEN deleted \cup {empty_folders[epos]}
                             ELSE deleted
    /\ UNCHANGED <<emptyRest, empty_folders>>

\* SIGINT or SIGTERM arrives while cleanup_empty_folders runs
EmptySignal ==
    /\ epc # "done"
    /\ HandleSignal

EmptyNext ==
    \/ FindStep
    \/ Confirm
    \/ DeleteStep
    \/ EmptySignal

EmptySpec == EmptyInit /\ [][EmptyNext]_vars
(***************************************************************************)
(* process_directory_smart of smart_organizer.py: the walk, the metadata   *)
(* pool, the size groups, the hashing (Rich: one pool task per group;      *)
(* simple: one group after the other) and the report.                      *)
(***************************************************************************)
MAX_WORKERS == 2   \* threads of the ThreadPoolExecutor

\* the files 1 to 4 are the user's; 5 and 6 are analysis_summary.json in the
\* report directories that generate_smart_report makes, one per scanned root
UserFiles == 1 .. 4
Files == 1 .. 6
Fragile == {2, 3}  \* the files that may become unreadable during a scan

\* the scanned tree: a directory name is <<prefix, rest>>, so that
\* str.startswith can be told
Sub == <<"sub">>
Organized == <<"Organized_", "2024">>
Docs == <<"docs">>
Missing == <<"missing">>   \* a selected directory that cannot be listed
Nowhere == <<"">>          \* the place of a file that does not exist yet
startswith(name, prefixes) == name[1] \in prefixes

\* report_dir_name = f"Smart_Analysis_{os.path.basename(directory_path)}_...",
\* made below directory_path (output_dir is None, the default)
report_dir(root) == <<"Smart_Analysis_", root[1]>>
json_path(root) == IF root = Root THEN 5 ELSE 6
NoFile == [dir |-> Nowhere, gone |-> FALSE, content |-> <<>>]

\* os.walk: the directories below d
subdirs(d) ==
    LET reports == IF disk[json_path(d)].dir = report_dir(d)
                   THEN <<report_dir(d)>> ELSE <<>>
    IN  IF d = Root THEN <<Sub, Organized>> \o reports
        ELSE IF d = Docs THEN reports
        ELSE <<>>

\* the files of each directory in os.walk's order, from their numbers
RECURSIVE Ascending(_)
Ascending(S) ==
    IF S = {} THEN <<>>
    ELSE LET x == CHOOSE y \in S : \A z \in S : y <= z
         IN  <<x>> \o Ascending(S \ {x})

filenames(d) == Ascending({f \in Files : disk[f].dir = d})

\* dirs[:] = [d for d in dirs if not d.startswith(('Organized_', 'Analysis_Report_'))]
PruneDirs(dirs) ==
    SelectSeq(dirs, LAMBDA d : ~startswith(d, {"Organized_", "Analysis_Report_"}))

\* where the four files lie, and the contents a scanned file may hold, as
\* chunks of CHUNK_SIZE bytes; the chunk "s" is a short last chunk of 512 bytes
Layouts ==
    {l \in [UserFiles -> {Root, Sub, Organized}] :
        /\ l[1] = Root /\ l[2] = Sub /\ l[3] = Sub
        /\ l[4] \in {Sub, Organized}}

DiskContents(f) ==
    CASE f = 1 -> {<<"a">>, <<"a", "a">>}
      [] f = 2 -> {<<>>, <<"a">>, <<"b">>, <<"s">>}
      [] f = 3 -> {<<"a">>, <<"s">>}
      [] f = 4 -> {<<>>, <<"a">>, <<"a", "a">>, <<"a", "b">>}

CHUNK_SIZE == 65536

\* os.stat(file_path).st_size, in bytes
RECURSIVE getsize(_)
getsize(content) ==
    IF content = <<>> THEN 0
    ELSE (IF Head(content) = "s" THEN 512 ELSE CHUNK_SIZE) + getsize(Tail(content))

\* AnalysisConfig.hash_size_threshold: 1KB to 100MB
hash_size_threshold == <<1024, 100 * 1024 * 1024>>

\* calculate_hash(file_path) of smart_organizer.py, for a file of a size
\* group (not empty): None when the file cannot be opened or read
calculate_hash_first_chunk(f) ==
    IF disk[f].gone THEN None ELSE SHA256(SubSeq(disk[f].content, 1, 1))
calculate_hash(f) ==
    IF disk[f].gone THEN None ELSE SHA256(disk[f].content)

\* the distinct values of key over seq, in the order of first occurrence
FirstOccurrences(seq, key) ==
    LET idx == {i \in 1 .. Len(seq) :
                  \A j \in 1 .. (i - 1) : key[seq[j]] # key[seq[i]]}
        asc == Ascending(idx)
    IN  [n \in 1 .. Len(asc) |-> key[seq[asc[n]]]]

\* size_groups and potential_duplicates: the records of size > 0 by size, in
\* the order a defaultdict keeps, and of them the groups with the wanted length
AnyGroup(n) == n >= 1
IsPotentialDuplicate(n) == n > 1

\* `if file_data['size'] > 0:` empty files are ignored for duplication
AnySize(size) == size >= 0
NotEmpty(size) == size > 0

potential_duplicates(processed, data) ==
    LET sized == SelectSeq(processed, LAMBDA f : NotEmpty(data[f].size))
        sizeOf == [f \in Files |-> data[f].size]
        keys == FirstOccurrences(sized, sizeOf)
        size_groups == [n \in 1 .. Len(keys) |->
                           SelectSeq(sized, LAMBDA f : data[f].size = keys[n])]
    IN  SelectSeq(size_groups, LAMBDA g : IsPotentialDuplicate(Len(g)))

\* `if len(files) > 1:` a hash group that becomes a DuplicateGroup
MoreThanTwo(n) == n > 2
IsDuplicateGroup(n) == n > 1

\* `if file_data['hash']:` a record whose hash is None joins no hash group
AnyHash(h) == TRUE
HasHash(h) == h # None

\* hash_groups of one hashed group, and the entries it adds to duplicates:
\* duplicates[h] = files for every digest h shared by more than one member
WithDuplicates(dups, group, data) ==
    LET withHash == SelectSeq(group, LAMBDA f : HasHash(data[f].hash))
        hashOf == [f \in Files |-> data[f].hash]
        keys == FirstOccurrences(withHash, hashOf)
        shared == {keys[n] : n \in {m \in 1 .. Len(keys) :
                     IsDuplicateGroup(
                       Len(SelectSeq(withHash, LAMBDA f : data[f].hash = keys[m])))}}
    IN  [h \in (DOMAIN dups) \cup shared |->
            IF h \in shared
            THEN SelectSeq(withHash, LAMBDA f : data[f].hash = h)
            ELSE dups[h]]

NoDuplicates == [h \in {} |-> <<>>]

ScanInit ==
    /\ CacheIdle
    /\ ClassIdle
    /\ CalcIdle
    /\ PoolIdle
    /\ MainIdle
    /\ \E l \in Layouts :
         \E c1 \in DiskContents(1), c2 \in DiskContents(2),
            c3 \in DiskContents(3), c4 \in DiskContents(4) :
            disk = [f \in Files |->
                      IF f \in UserFiles
                      THEN [dir |-> l[f], gone |-> FALSE,
                            content |-> CASE f = 1 -> c1 [] f = 2 -> c2
                                          [] f = 3 -> c3 [] f = 4 -> c4]
                      ELSE NoFile]
    /\ rich \in BOOLEAN
    /\ pc = "called"
    /\ todo = <<>>
    /\ all_files = <<>>
    /\ futures = [f \in {} |-> "pending"]
    /\ yielded = {}
    /\ processed_files = <<>>
    /\ file_data = [f \in Files |-> [size |-> 0, hash |-> None]]
    /\ groups = <<>>
    /\ gtask = <<>>
    /\ gi = 0
    /\ consumed = {}
    /\ duplicates = NoDuplicates
    /\ report = NoReport
    /\ hashed = {}
    /\ killedAt = "never"

others == <<cacheVars, calcRest, classVars, poolVars, mainVars>>

\* `if killer.kill_now: return` on entry; else os.walk(directory_path) starts
Enter ==
    /\ pc = "called"
    /\ IF kill_now
       THEN pc' = "returned" /\ UNCHANGED todo
       ELSE pc' = "walk" /\ todo' = <<directory_path>>
    /\ UNCHANGED <<others, kill_now, killedAt, disk, rich, all_files, futures,
                   yielded, processed_files, file_data, groups, gtask, gi,
                   consumed, duplicates, report, hashed>>

\* one turn of `for root, dirs, files in os.walk(directory_path)`
WalkStep ==
    /\ pc = "walk"
    /\ IF todo = <<>>
       THEN pc' = "walked" /\ UNCHANGED <<todo, all_files>>
       ELSE IF kill_now
       THEN pc' = "walked" /\ UNCHANGED <<todo, all_files>>
       ELSE /\ todo' = PruneDirs(subdirs(Head(todo))) \o Tail(todo)
            /\ all_files' = all_files \o filenames(Head(todo))
            /\ pc' = "walk"
    /\ UNCHANGED <<others, kill_now, killedAt, disk, rich, futures,
                   yielded, processed_files, file_data, groups, gtask, gi,
                   consumed, duplicates, report, hashed>>

\* the two returns after the walk, else the metadata futures are submitted
AfterWalk ==
    /\ pc = "walked"
    /\ IF kill_now \/ all_files = <<>>
       THEN pc' = "returned" /\ UNCHANGED futures
       ELSE /\ pc' = "meta"
            /\ futures' = [f \in {all_files[i] : i \in 1 .. Len(all_files)}
                              |-> "pending"]
    /\ UNCHANGED <<others, kill_now, killedAt, disk, rich, todo, all_files,
                   yielded, processed_files, file_data, groups, gtask, gi,
                   consumed, duplicates, report, hashed>>

\* a pool thread runs get_file_metadata(file_path)
MetaTask(f) ==
    /\ pc \in {"meta", "meta_join"}
    /\ f \in DOMAIN futures
    /\ futures[f] = "pending"
    /\ IF kill_now \/ disk[f].gone
       THEN futures' = [futures EXCEPT ![f] = "none"] /\ UNCHANGED file_data
       ELSE /\ futures' = [futures EXCEPT ![f] = "ok"]
            /\ file_data' = [file_data EXCEPT
                               ![f] = [size |-> getsize(disk[f].content), hash |-> None]]
    /\ UNCHANGED <<others, kill_now, killedAt, disk, rich, pc, todo, all_files,
                   yielded, processed_files, groups, gtask, gi,
                   consumed, duplicates, report, hashed>>

\* one turn of `for future in as_completed(future_to_file)`
MetaYield(f) ==
    /\ pc = "meta"
    /\ f \in DOMAIN futures
    /\ futures[f] # "pending"
    /\ f \notin yielded
    /\ IF kill_now
       THEN pc' = "meta_join" /\ UNCHANGED <<yielded, processed_files>>
       ELSE /\ yielded' = yielded \cup {f}
            /\ processed_files' = IF futures[f] = "ok"
                                  THEN Append(processed_files, f)
                                  ELSE processed_files
            /\ pc' = IF yielded' = DOMAIN futures THEN "meta_join" ELSE "meta"
    /\ UNCHANGED <<others, kill_now, killedAt, disk, rich, todo, all_files,
                   futures, file_data, groups, gtask, gi,
                   consumed, duplicates, report, hashed>>

\* the pool is shut down (all its tasks have run); then the return on
\* kill_now, else the size groups; without a potential duplicate the report
\* is next
AfterMeta ==
    /\ pc = "meta_join"
    /\ \A f \in DOMAIN futures : futures[f] # "pending"
    /\ IF kill_now
       THEN pc' = "returned" /\ UNCHANGED <<groups, gtask, gi>>
       ELSE LET pd == potential_duplicates(processed_files, file_data)
            IN  /\ groups' = pd
                /\ gtask' = [i \in 1 .. Len(pd) |-> [state |-> "pending", next |-> 1]]
                /\ gi' = 1
                /\ pc' = IF pd = <<>> THEN "report" ELSE "hash"
    /\ UNCHANGED <<others, kill_now, killedAt, disk, rich, todo, all_files,
                   futures, yielded, processed_files, file_data,
                   consumed, duplicates, report, hashed>>

\* Rich: a pool thread takes the next submitted _hash_files(group)
StartTask(i) ==
    /\ rich
    /\ pc \in {"hash", "hash_join"}
    /\ i \in DOMAIN gtask
    /\ gtask[i].state = "pending"
    /\ \A j \in 1 .. (i - 1) : gtask[j].state # "pending"
    /\ Cardinality({j \in DOMAIN gtask : gtask[j].state = "running"}) < MAX_WORKERS
    /\ gtask' = [gtask EXCEPT ![i].state = "running"]
    /\ UNCHANGED <<others, kill_now, killedAt, disk, rich, pc, todo, all_files,
                   futures, yielded, processed_files, file_data, groups, gi,
                   consumed, duplicates, report, hashed>>

\* one turn of the loop of _hash_files(file_list), and its return
HashFileWithoutCheck(i) ==
    /\ pc \in {"hash", "hash_join", "hash_files"}
    /\ i \in DOMAIN gtask
    /\ gtask[i].state = "running"
    /\ LET f == groups[i][gtask[i].next]
       IN  /\ file_data' = [file_data EXCEPT ![f].hash = calculate_hash(f)]
           /\ hashed' = hashed \cup {f}
           /\ gtask' = [gtask EXCEPT
                          ![i].next = @ + 1,
                          ![i].state = IF gtask[i].next = Len(groups[i])
                                       THEN "done" ELSE "running"]
    /\ UNCHANGED <<others, kill_now, killedAt, disk, rich, pc, todo, all_files,
                   futures, yielded, processed_files, groups, gi,
                   consumed, duplicates, report>>
HashFile(i) ==
    /\ pc \in {"hash", "hash_join", "hash_files"}
    /\ i \in DOMAIN gtask
    /\ gtask[i].state = "running"
    /\ IF kill_now
       THEN /\ gtask' = [gtask EXCEPT ![i].state = "done"]
            /\ UNCHANGED <<file_data, hashed>>
       ELSE LET f == groups[i][gtask[i].next]
            IN  /\ file_data' = [file_data EXCEPT ![f].hash = calculate_hash(f)]
                /\ hashed' = hashed \cup {f}
                /\ gtask' = [gtask EXCEPT
                               ![i].next = @ + 1,
                               ![i].state = IF gtask[i].next = Len(groups[i])
                                            THEN "done" ELSE "running"]
    /\ UNCHANGED <<others, kill_now, killedAt, disk, rich, pc, todo, all_files,
                   futures, yielded, processed_files, groups, gi,
                   consumed, duplicates, report>>

\* Rich: one turn of `for future in as_completed(future_to_group)`
RichYield(i) ==
    /\ rich
    /\ pc = "hash"
    /\ i \in DOMAIN gtask
    /\ gtask[i].state = "done"
    /\ i \notin consumed
    /\ IF kill_now
       THEN pc' = "hash_join" /\ UNCHANGED <<consumed, duplicates>>
       ELSE /\ duplicates' = WithDuplicates(duplicates, groups[i], file_data)
            /\ consumed' = consumed \cup {i}
            /\ pc' = IF consumed' = DOMAIN gtask THEN "hash_join" ELSE "hash"
    /\ UNCHANGED <<others, kill_now, killedAt, disk, rich, todo, all_files,
                   futures, yielded, processed_files, file_data, groups, gtask,
                   gi, hashed, report>>

\* Rich: the pool is shut down once every task has run
AfterRich ==
    /\ rich
    /\ pc = "hash_join"
    /\ \A i \in DOMAIN gtask : gtask[i].state = "done"
    /\ pc' = "report"
    /\ UNCHANGED <<others, kill_now, killedAt, disk, rich, todo, all_files,
                   futures, yielded, processed_files, file_data, groups, gtask,
                   gi, consumed, duplicates, report, hashed>>

\* simple: the head of `for i, group in enumerate(potential_duplicates)`
SimpleLoop ==
    /\ ~rich
    /\ pc = "hash"
    /\ IF gi > Len(groups) \/ kill_now
       THEN pc' = "report" /\ UNCHANGED gtask
       ELSE pc' = "hash_files" /\ gtask' = [gtask EXCEPT ![gi].state = "running"]
    /\ UNCHANGED <<others, kill_now, killedAt, disk, rich, todo, all_files,
                   futures, yielded, processed_files, file_data, groups,
                   gi, consumed, duplicates, report, hashed>>

\* simple: _hash_files(group) has returned; its hash groups are collected
SimpleCollect ==
    /\ ~rich
    /\ pc = "hash_files"
    /\ gtask[gi].state = "done"
    /\ duplicates' = WithDuplicates(duplicates, groups[gi], file_data)
    /\ gi' = gi + 1
    /\ pc' = "hash"
    /\ UNCHANGED <<others, kill_now, killedAt, disk, rich, todo, all_files,
                   futures, yielded, processed_files, file_data, groups, gtask,
                   consumed, report, hashed>>

\* generate_smart_report(directory_path, processed_files, duplicates):
\* the report directory is made and analysis_summary.json is written in it
\* (duplicates_found.json, written next to it, is report.duplicates); when
\* the directory cannot be made here or in the current directory, or the
\* file cannot be written, the exception leaves process_directory_smart
generate_smart_report ==
    /\ pc = "report"
    /\ \E writeFails \in BOOLEAN :
          IF writeFails
          THEN /\ pc' = "raised"
               /\ UNCHANGED <<report, disk>>
          ELSE /\ report' = [made |-> TRUE,
                             interrupted |-> kill_now,
                             files |-> [n \in 1 .. Len(processed_files) |->
                                 [path |-> processed_files[n],
                                  size |-> file_data[processed_files[n]].size,
                                  hash |-> file_data[processed_files[n]].hash]],
                             duplicates |-> duplicates]
               /\ disk' = [disk EXCEPT ![json_path(directory_path)] =
                             [dir |-> report_dir(directory_path), gone |-> FALSE,
                              content |-> <<"r">>]]
               /\ pc' = "returned"
    /\ UNCHANGED <<others, kill_now, killedAt, rich, todo, all_files,
                   futures, yielded, processed_files, file_data, groups, gtask,
                   gi, consumed, duplicates, hashed>>

\* a file is deleted or becomes unreadable while the scan runs
Vanish(f) ==
    /\ pc \notin {"idle", "returned", "raised"}
    /\ ~disk[f].gone
    /\ disk' = [disk EXCEPT ![f].gone = TRUE]
    /\ UNCHANGED <<others, kill_now, killedAt, rich, pc, todo, all_files,
                   futures, yielded, processed_files, file_data, groups, gtask,
                   gi, consumed, duplicates, report, hashed>>

\* SIGINT or SIGTERM arrives while process_directory_smart runs
Signal ==
    /\ pc \notin {"returned", "raised"}
    /\ HandleSignal

Next ==
    \/ Enter
    \/ WalkStep
    \/ AfterWalk
    \/ \E f \in Files : MetaTask(f)
    \/ \E f \in Files : MetaYield(f)
    \/ AfterMeta
    \/ \E i \in DOMAIN gtask : StartTask(i)
    \/ \E i \in DOMAIN gtask : HashFile(i)
    \/ \E i \in DOMAIN gtask : RichYield(i)
    \/ AfterRich
    \/ SimpleLoop
    \/ SimpleCollect
    \/ generate_smart_report
    \/ \E f \in Fragile : Vanish(f)
    \/ Signal

Spec == ScanInit /\ [][Next]_vars

(***************************************************************************)
(* main of smart_organizer.py from the loop over selected_dirs on, and the *)
(* program run again on the same tree.                                     *)
(***************************************************************************)
MaxRuns == 2       \* runs of the program that are explored

\* what display_smart_selection may return
Selections ==
    {<<Root, Docs>>, <<Docs, Root>>, <<Missing, Root>>, <<Root, Missing, Docs>>}

MainInit ==
    /\ CacheIdle
    /\ ClassIdle
    /\ CalcIdle
    /\ PoolIdle
    /\ \E c2 \in {<<"a">>, <<"b">>}, c4 \in {<<>>, <<"a">>} :
          disk = [f \in Files |->
                    CASE f = 1 -> [dir |-> Root, gone |-> FALSE, content |-> <<"a">>]
                      [] f = 2 -> [dir |-> Sub, gone |-> FALSE, content |-> c2]
                      [] f = 3 -> [dir |-> Docs, gone |-> FALSE, content |-> <<"a">>]
                      [] f = 4 -> [dir |-> Docs, gone |-> FALSE, content |-> c4]
                      [] OTHER -> NoFile]
    /\ rich \in BOOLEAN
    /\ pc = "idle"
    /\ todo = <<>>
    /\ all_files = <<>>
    /\ futures = [f \in {} |-> "pending"]
    /\ yielded = {}
    /\ processed_files = <<>>
    /\ file_data = [f \in Files |-> [size |-> 0, hash |-> None]]
    /\ groups = <<>>
    /\ gtask = <<>>
    /\ gi = 0
    /\ consumed = {}
    /\ duplicates = NoDuplicates
    /\ report = NoReport
    /\ hashed = {}
    /\ killedAt = "never"
    /\ directory_path = Root
    /\ selected_dirs \in Selections
    /\ di = 1
    /\ mainpc = "loop"
    /\ run = 1
    /\ called = {}

\* the locals of process_directory_smart at its call (position "called"),
\* and when no call is under way (position "idle")
FreshLocals(position) ==
    /\ pc' = position
    /\ todo' = <<>>
    /\ all_files' = <<>>
    /\ futures' = [f \in {} |-> "pending"]
    /\ yielded' = {}
    /\ processed_files' = <<>>
    /\ file_data' = [f \in Files |-> [size |-> 0, hash |-> None]]
    /\ groups' = <<>>
    /\ gtask' = <<>>
    /\ gi' = 0
    /\ consumed' = {}
    /\ duplicates' = NoDuplicates
    /\ report' = NoReport
    /\ hashed' = {}

\* the head of `for i, directory in enumerate(selected_dirs, 1)`: the break
\* on kill_now, else the call process_directory_smart(directory)
MainLoop ==
    /\ mainpc = "loop"
    /\ IF di > Len(selected_dirs) \/ kill_now
       THEN /\ mainpc' = "exit"
            /\ UNCHANGED <<directory_path, called, pc, todo, all_files, futures,
                           yielded, processed_files, file_data, groups, gtask,
                           gi, consumed, duplicates, report, hashed>>
       ELSE /\ mainpc' = "call"
            /\ directory_path' = selected_dirs[di]
            /\ called' = called \cup {di}
            /\ FreshLocals("called")
    /\ UNCHANGED <<cacheVars, calcVars, classVars, poolVars, disk, rich, killedAt,
                   selected_dirs, di, run>>

\* process_directory_smart has returned, and the loop goes on; or it has
\* raised, and `except Exception` of main ends the run
MainAfterCall ==
    /\ mainpc = "call"
    /\ pc \in {"returned", "raised"}
    /\ IF pc = "returned"
       THEN mainpc' = "loop" /\ di' = di + 1
       ELSE mainpc' = "crash" /\ UNCHANGED di
    /\ UNCHANGED <<cacheVars, calcVars, classVars, poolVars, scanVars,
                   directory_path, selected_dirs, run, called>>

\* the program is started again on the same tree, with the same selection
RunAgain ==
    /\ mainpc \in {"exit", "crash"}
    /\ run < MaxRuns
    /\ run' = run + 1
    /\ kill_now' = FALSE
    /\ killedAt' = "never"
    /\ mainpc' = "loop"
    /\ di' = 1
    /\ called' = {}
    /\ FreshLocals("idle")
    /\ UNCHANGED <<cacheVars, calcRest, classVars, poolVars, disk, rich,
                   directory_path, selected_dirs>>

\* SIGINT or SIGTERM arrives while main runs
MainSignal ==
    /\ mainpc \in {"loop", "call"}
    /\ HandleSignal

MainNext ==
    \/ MainLoop
    \/ MainAfterCall
    \/ RunAgain
    \/ MainSignal
    \/ Enter
    \/ WalkStep
    \/ AfterWalk
    \/ \E f \in Files : MetaTask(f)
    \/ \E f \in Files : MetaYield(f)
    \/ AfterMeta
    \/ \E i \in DOMAIN gtask : StartTask(i)
    \/ \E i \in DOMAIN gtask : HashFile(i)
    \/ \E i \in DOMAIN gtask : RichYield(i)
    \/ AfterRich
    \/ SimpleLoop
    \/ SimpleCollect
    \/ generate_smart_report
    \/ \E f \in Fragile : Vanish(f)

MainSpec == MainInit /\ [][MainNext]_vars

(***************************************************************************)
(* One run of main under fair scheduling: the main thread and the pool     *)
(* threads are operating-system threads, so a step of the program that     *)
(* stays possible is taken; the executor runs every task that is queued.   *)
(* Nothing is assumed about signals or about files vanishing.              *)
(***************************************************************************)
ProgramStep ==
    \/ MainLoop
    \/ MainAfterCall
    \/ Enter
    \/ WalkStep
    \/ AfterWalk
    \/ \E f \in Files : MetaTask(f)
    \/ \E f \in Files : MetaYield(f)
    \/ AfterMeta
    \/ \E i \in DOMAIN gtask : StartTask(i)
    \/ \E i \in DOMAIN gtask : HashFile(i)
    \/ \E i \in DOMAIN gtask : RichYield(i)
    \/ AfterRich
    \/ SimpleLoop
    \/ SimpleCollect
    \/ generate_smart_report

LiveNext ==
    \/ ProgramStep
    \/ MainSignal
    \/ \E f \in Fragile : Vanish(f)

LiveSpec == MainInit /\ [][LiveNext]_vars /\ WF_vars(ProgramStep)
(***************************************************************************)
(* Claims about process_directory_smart, checked under Spec.               *)
(***************************************************************************)
Range(seq) == {seq[i] : i \in 1 .. Len(seq)}
Position(seq, x) == CHOOSE i \in 1 .. Len(seq) : seq[i] = x
Completed == pc = "returned" /\ ~kill_now

\* the files f and g are together in one DuplicateGroup and in no other
TogetherInOneGroup(dups, f, g) ==
    /\ \E h \in DOMAIN dups : {f, g} \subseteq Range(dups[h])
    /\ \A h1, h2 \in DOMAIN dups :
          (f \in Range(dups[h1]) /\ f \in Range(dups[h2])) => h1 = h2
    /\ \A h1, h2 \in DOMAIN dups :
          (g \in Range(dups[h1]) /\ g \in Range(dups[h2])) => h1 = h2

SameContent(f, g) ==
    /\ f # g
    /\ disk[f].content = disk[g].content
    /\ disk[f].content # <<>>
    /\ ~disk[f].gone /\ ~disk[g].gone

\* C3: a file handed to the hash function has the size of at least one
\* other collected file; a file alone in its size group is never hashed.
C3_OnlySharedSizesHashed ==
    \A f \in hashed :
        \E g \in Range(processed_files) \ {f} :
            file_data[g].size = file_data[f].size

\* a finished scan that hashed some files and left alone a file of a size
\* (not zero) that no other file has
C3_Witness ==
    /\ Completed
    /\ hashed # {}
    /\ \E f \in Range(processed_files) \ hashed :
          /\ file_data[f].size > 0
          /\ \A g \in Range(processed_files) \ {f} :
                file_data[g].size # file_data[f].size

\* C4 as claimed: any two readable files under the scanned root with the
\* same non-empty content are, after a scan that was not cancelled, together
\* in one DuplicateGroup and in no other.
C4_AnyTwoFilesUnderRoot ==
    Completed =>
        \A f, g \in Files :
            SameContent(f, g) =>
                report.made /\ TogetherInOneGroup(report.duplicates, f, g)

\* C4, amended: the same for any two files that the walk enumerated, which
\* leaves out the files below a pruned directory (Organized_*,
\* Analysis_Report_*).
C4_EnumeratedFilesGrouped ==
    Completed =>
        \A f, g \in Range(all_files) :
            SameContent(f, g) =>
                report.made /\ TogetherInOneGroup(report.duplicates, f, g)

\* two size groups, each with a pair of identical files, were both reported
C4_Witness ==
    /\ Completed
    /\ report.made
    /\ Cardinality(DOMAIN report.duplicates) = 2
    /\ \E f, g \in Range(all_files) :
          SameContent(f, g) /\ TogetherInOneGroup(report.duplicates, f, g)

\* C5 as claimed: the members of every DuplicateGroup are in the order in
\* which the walk discovered them, whatever the order in which the workers
\* complete.
C5_DiscoveryOrder ==
    \A h \in DOMAIN duplicates :
        \A i, j \in 1 .. Len(duplicates[h]) :
            i < j => Position(all_files, duplicates[h][i]) <
                     Position(all_files, duplicates[h][j])

\* C6: every DuplicateGroup has at least two members, all of the size and
\* of the digest that is the group's key, never None; and after a scan that
\* was not cancelled a readable file that shares its size with another
\* collected file has its hash, and shares a group only with files of its
\* own content.
C6_GroupsAreExactDuplicates ==
    /\ \A h \in DOMAIN duplicates :
          /\ Len(duplicates[h]) >= 2
          /\ h # None
          /\ \A f, g \in Range(duplicates[h]) :
                /\ file_data[f].hash = h
                /\ file_data[f].size = file_data[g].size
    /\ report.made => report.duplicates = duplicates
    /\ Completed =>
          \A f \in Range(processed_files) :
              (/\ ~disk[f].gone
               /\ \E g \in Range(processed_files) \ {f} :
                     file_data[g].size = file_data[f].size
               /\ file_data[f].size > 0) =>
                  /\ file_data[f].hash = SHA256(disk[f].content)
                  /\ \A h \in DOMAIN duplicates :
                        f \in Range(duplicates[h]) =>
                            \A g \in Range(duplicates[h]) :
                                disk[g].content = disk[f].content

\* two identical files are the one group reported, and a third file of
\* their size with another content was hashed and is in no group
C6_Witness ==
    /\ Completed
    /\ report.made
    /\ \E f, g, k \in Range(processed_files) :
          /\ SameContent(f, g)
          /\ k \notin {f, g}
          /\ ~disk[k].gone
          /\ Len(disk[k].content) = Len(disk[f].content)
          /\ disk[k].content # disk[f].content
          /\ k \in hashed
          /\ file_data[k].hash # None
          /\ DOMAIN report.duplicates = {file_data[f].hash}
          /\ Range(report.duplicates[file_data[f].hash]) = {f, g}

\* C7 as claimed: when kill_now is raised while process_directory_smart
\* runs (walk, metadata or hashing), the scan still writes a report, and
\* the report is flagged interrupted.
C7_ReportAfterCancellation ==
    (pc = "returned" /\ killedAt \notin {"never", "called"}) =>
        report.made /\ report.interrupted

\* C15 as claimed: a file whose size is outside the hash-eligible range
\* (1024 bytes to 100 MB) is never hashed, also when other files have its
\* size.
C15_OnlyEligibleSizesHashed ==
    \A f \in hashed :
        /\ file_data[f].size >= hash_size_threshold[1]
        /\ file_data[f].size <= hash_size_threshold[2]

\* the file failed: its metadata could not be read, or it was handed to
\* calculate_hash and that returned None
Failed(f) ==
    \/ f \in DOMAIN futures /\ futures[f] = "none"
    \/ f \in hashed /\ file_data[f].hash = None

InSomeGroup(dups, f) == \E h \in DOMAIN dups : f \in Range(dups[h])

\* C17: a file whose stat or whose hashing failed is in no DuplicateGroup;
\* after a scan that was not cancelled the report is written, every other
\* collected file that shares its size (not zero) with a collected file was
\* hashed, with a hash unless it is gone too, and any two files that got
\* the same hash are together in one DuplicateGroup.
C17_FailureStaysWithTheFile ==
    /\ \A f \in Files : Failed(f) => ~InSomeGroup(duplicates, f)
    /\ (Completed /\ all_files # <<>>) =>
          /\ report.made
          /\ \A f \in Range(processed_files) :
                (/\ file_data[f].size > 0
                 /\ \E g \in Range(processed_files) \ {f} :
                       file_data[g].size = file_data[f].size) =>
                    /\ f \in hashed
                    /\ file_data[f].hash = None => disk[f].gone
          /\ \A f, g \in hashed :
                (f # g /\ file_data[f].hash # None
                       /\ file_data[f].hash = file_data[g].hash) =>
                    TogetherInOneGroup(report.duplicates, f, g)

\* in a scan that ran to its report, one file was gone before its stat,
\* another of the size of two identical files was gone before it was
\* hashed, and the two identical files are the one group reported
C17_Witness ==
    /\ Completed
    /\ report.made
    /\ \E f \in Files : f \in DOMAIN futures /\ futures[f] = "none"
    /\ \E f \in hashed, g1, g2 \in hashed :
          /\ file_data[f].hash = None
          /\ g1 # g2
          /\ file_data[g1].size = file_data[f].size
          /\ TogetherInOneGroup(report.duplicates, g1, g2)
    /\ Cardinality(DOMAIN report.duplicates) = 1

\* C18: a collected file of zero bytes is in no group of potential
\* duplicates, is never handed to the hash function and is in no
\* DuplicateGroup; the report lists it in its file inventory.
C18_EmptyFilesNeverDuplicates ==
    \A f \in Range(processed_files) :
        file_data[f].size = 0 =>
            /\ f \notin hashed
            /\ \A i \in DOMAIN groups : f \notin Range(groups[i])
            /\ ~InSomeGroup(duplicates, f)
            /\ report.made =>
                  /\ ~InSomeGroup(report.duplicates, f)
                  /\ \E n \in DOMAIN report.files :
                        report.files[n].path = f /\ report.files[n].size = 0

\* two files of zero bytes were collected by a scan that hashed other files
\* and wrote its report
C18_Witness ==
    /\ Completed
    /\ report.made
    /\ hashed # {}
    /\ \E f, g \in Range(processed_files) :
          /\ f # g
          /\ file_data[f].size = 0 /\ file_data[g].size = 0
          /\ ~disk[f].gone /\ ~disk[g].gone

\* C21 as claimed: every content hash the duplicate detector computes for a
\* member of a size group went through the HashCache: a cache operation
\* has run by then, and a hash that was computed is stored in the cache
\* when it is returned to the detector.
C21_HashGoesThroughCache ==
    \A f \in hashed :
        /\ op # NoOp
        /\ file_data[f].hash # None =>
              \E row \in file_hashes : row.hash = file_data[f].hash

\* C28 as claimed: in every report, also one of a run interrupted while
\* hashing, two inventory records that carry the same content hash (not
\* null) are members of one reported DuplicateGroup.
C28_InventoryAgreesWithGroups ==
    report.made =>
        \A i, j \in 1 .. Len(report.files) :
            (/\ i # j
             /\ report.files[i].hash # None
             /\ report.files[i].hash = report.files[j].hash)
            => TogetherInOneGroup(report.duplicates,
                                  report.files[i].path, report.files[j].path)
(***************************************************************************)
(* Claims about cancellation, checked under LiveSpec.                      *)
(***************************************************************************)
\* process_directory_smart is running
Running == pc \notin {"idle", "returned", "raised"}

RECURSIVE IsUnder(_, _)
IsUnder(g, f) ==
    \/ g = f
    \/ folders[g].parent # 0 /\ IsUnder(folders[g].parent, f)

\* C30: a folder that find_empty_folders has put on its list holds no file
\* anywhere below it, and every folder directly in it is on the list too,
\* also when kill_now ended the walk early; only folders of the list are
\* removed, and none in a dry run.
C30_OnlyEmptyFoldersRemoved ==
    /\ \A f \in Range(empty_folders) :
          /\ \A g \in 1 .. Len(folders) : IsUnder(g, f) => folders[g].files = 0
          /\ \A g \in 1 .. Len(folders) :
                folders[g].parent = f => g \in Range(empty_folders)
          /\ folders[f].links = 0
    /\ deleted \subseteq Range(empty_folders)
    /\ dry_run => deleted = {}

\* kill_now ended the walk after it had listed a folder and the empty
\* folder in it, and before it came to another empty folder
C30_Witness ==
    /\ kill_now
    /\ epc # "find"
    /\ \E f, g \in Range(empty_folders) : folders[g].parent = f
    /\ \E h \in 1 .. Len(folders) :
          /\ h \notin Range(empty_folders)
          /\ folders[h].files = 0 /\ folders[h].links = 0
          /\ walk_dirs(h) = {}
          /\ folders[h].name = name_photos
(***************************************************************************)
(* Claims about main and about a second run, checked under MainSpec.       *)
(***************************************************************************)
\* C16 as claimed: no scan collects or hashes a file that lies in a report
\* directory (Smart_Analysis_*) that an earlier scan of the same root made
\* below that root.
C16_OwnOutputNeverScanned ==
    \A f \in Range(all_files) \cup hashed :
        ~startswith(disk[f].dir, {"Smart_Analysis_"})

\* C20 as claimed: when main ends without cancellation, whether it left
\* its loop or was ended by an exception, process_directory_smart was
\* called for every selected directory.
C20_EveryDirectoryProcessed ==
    (mainpc \in {"exit", "crash"} /\ ~kill_now) =>
        called = DOMAIN selected_dirs
====
